---- MODULE Spec2Model ----
(***************************************************************************)
(* Sync-Scansia: the OUTLET workflow (src/src/sync.py), the price repair   *)
(* script (src/fix_prices.py), the entry point (src/main.py) and the two   *)
(* rate-limited clients (sync.Shopify, shopify_client.ShopifyClient).      *)
(*                                                                         *)
(* Python values: None is the record NoneV, any other optional value x is  *)
(* Some(x).  A str is a sequence of one-character strings where the code   *)
(* looks inside it (prices), and a sequence of "-" / " - " separated       *)
(* tokens where the code only tests suffixes (handles, titles).            *)
(***************************************************************************)
EXTENDS Integers, Sequences, FiniteSets, TLC

VARIABLES
    \* one application of a pure helper: which one, its argument, its result
    fn, arg, ret,
    \* one call through a rate-limited client
    gw_kind, max_retries, attempt, resps, backoff, slept, gw_result,
    \* the client's minimum interval, the time slept since its last dispatch,
    \* and for every dispatch the time since the recorded time of the last call
    min_interval, since, gaps,
    \* the run's inputs: command line and environment, the sheet's rows
    cfg, sheet,
    \* the remote shop: products by id, the next id it hands out, its locations,
    \* and whether its searches answer the newest product first
    products, next_id, remote_locs, newest_first,
    \* main(): position, run number, SKU groups, index of the current group,
    \* statistics, the process exit code, the Shopify instance's location cache
    pc, run, groups, gi, stats, exit_code, location_cache,
    \* process_sku_group: its locals, and what it returned or raised
    loc, result,
    \* observation: the remote calls and write-backs issued for the current
    \* group, the outcome of every group of this run and of the previous one,
    \* what happened to the current group, the injected remote failures so far
    calls, outcomes, prev_outcomes, ghist, faults, products0,
    \* reset_product_variants: the product's variants at the shop and the next
    \* variant id it hands out, the skip_filter argument, the position in the
    \* function, its locals, what it returned, and the remote calls it issued
    shop_variants, next_vid, skip_filter, rpc, variant_backup, inventory_backup,
    variant_mapping, vidx, reset_ret, reset_calls

NoneV == [tag |-> "None"]
Some(x) == [tag |-> "Some", val |-> x]
IsNone(v) == v.tag = "None"

Range(s) == {s[i] : i \in 1..Len(s)}

\* Python truthiness of an Optional[str]: None and "" are falsy.
Truthy(v) == v.tag = "Some" /\ Len(v.val) > 0

(***************************************************************************)
(* Prices: _clean_price and the fallback rules of sync.py / fix_prices.py  *)
(***************************************************************************)
Digits == {"0", "1", "2", "3", "4", "5", "6", "7", "8", "9"}

DigitVal(c) ==
    CASE c = "0" -> 0 [] c = "1" -> 1 [] c = "2" -> 2 [] c = "3" -> 3
      [] c = "4" -> 4 [] c = "5" -> 5 [] c = "6" -> 6 [] c = "7" -> 7
      [] c = "8" -> 8 [] c = "9" -> 9

DigitChar(n) ==
    CASE n = 0 -> "0" [] n = 1 -> "1" [] n = 2 -> "2" [] n = 3 -> "3"
      [] n = 4 -> "4" [] n = 5 -> "5" [] n = 6 -> "6" [] n = 7 -> "7"
      [] n = 8 -> "8" [] n = 9 -> "9"

\* str.strip(): leading and trailing blanks removed.
RECURSIVE LStrip(_)
LStrip(s) == IF Len(s) > 0 /\ Head(s) = " " THEN LStrip(Tail(s)) ELSE s

RECURSIVE RStrip(_)
RStrip(s) ==
    IF Len(s) > 0 /\ s[Len(s)] = " " THEN RStrip(SubSeq(s, 1, Len(s) - 1)) ELSE s

Strip(s) == RStrip(LStrip(s))

\* re.sub(r"[^\d,\.]", "", s): only digits, commas and dots are kept.
KeepPriceChars(s) == SelectSeq(s, LAMBDA c : c \in Digits \cup {",", "."})

CountChar(s, c) == Cardinality({i \in 1..Len(s) : s[i] = c})

ReplaceChar(s, a, b) == [i \in 1..Len(s) |-> IF s[i] = a THEN b ELSE s[i]]

\* The value of a digit string, "" counting as 0.
RECURSIVE DigitsVal(_)
DigitsVal(s) ==
    IF Len(s) = 0 THEN 0
    ELSE 10 * DigitsVal(SubSeq(s, 1, Len(s) - 1)) + DigitVal(s[Len(s)])

\* The decimal digits of n, at least one.
RECURSIVE NatDigits(_)
NatDigits(n) ==
    IF n < 10 THEN <<DigitChar(n)>> ELSE NatDigits(n \div 10) \o <<DigitChar(n % 10)>>

\* f"{x:.2f}" of a number of cents.
Fmt2(cents) ==
    NatDigits(cents \div 100) \o <<".", DigitChar((cents % 100) \div 10), DigitChar(cents % 10)>>

DotPos(s) == CHOOSE i \in 1..Len(s) : s[i] = "."

\* float(s2) accepts digits with at most one dot and at least one digit.  The
\* inputs of the model carry at most two decimals, so that f"{float(s2):.2f}"
\* rounds nothing.
FloatOk(s) ==
    /\ \A i \in 1..Len(s) : s[i] \in Digits \cup {"."}
    /\ CountChar(s, ".") <= 1
    /\ \E i \in 1..Len(s) : s[i] \in Digits

FloatCents(s) ==
    IF CountChar(s, ".") = 0 THEN 100 * DigitsVal(s)
    ELSE LET p == DotPos(s)
             ip == SubSeq(s, 1, p - 1)
             fp == SubSeq(s, p + 1, Len(s))
         IN 100 * DigitsVal(ip)
              + (IF Len(fp) = 0 THEN 0
                 ELSE IF Len(fp) = 1 THEN 10 * DigitVal(fp[1])
                 ELSE 10 * DigitVal(fp[1]) + DigitVal(fp[2]))

\* _clean_price(v): '€ 129', '129,90' -> '129.90'; None when there is no number.
clean_price(v) ==
    IF IsNone(v) THEN NoneV
    ELSE LET s == Strip(v.val) IN
         IF Len(s) = 0 THEN NoneV
         ELSE LET kept == KeepPriceChars(s)
                  s2 == IF CountChar(kept, ",") = 1 /\ CountChar(kept, ".") = 0
                           THEN ReplaceChar(kept, ",", ".") ELSE kept
              IN IF FloatOk(s2) THEN Some(Fmt2(FloatCents(s2))) ELSE NoneV

ZeroPrice == Some(<<"0", ".", "0", "0">>)

\* prezzo_pieno or "0.00"
OrZero(v) == IF Truthy(v) THEN v ELSE ZeroPrice

\* sync.process_sku_group: the pair handed to variants_bulk_update_prices,
\* [price, compare_at].
SyncPricePair(rawFull, rawSale) ==
    LET prezzo_pieno == clean_price(rawFull)
        cleaned == clean_price(rawSale)
        prezzo_scontato == IF ~Truthy(cleaned) THEN OrZero(prezzo_pieno) ELSE cleaned
    IN [price |-> prezzo_scontato, compare_at |-> prezzo_pieno]

\* fix_prices.fix_prices_for_sku: the same pair, with the second fallback.
FixPricePair(rawFull, rawSale) ==
    LET pieno0 == clean_price(rawFull)
        cleaned == clean_price(rawSale)
        prezzo_scontato == IF ~Truthy(cleaned) THEN OrZero(pieno0) ELSE cleaned
        prezzo_pieno == IF ~Truthy(pieno0) \/ pieno0 = ZeroPrice
                           THEN prezzo_scontato ELSE pieno0
    IN [price |-> prezzo_scontato, compare_at |-> prezzo_pieno]

(***************************************************************************)
(* Handles and titles.  A handle is its "-" separated tokens, a title its  *)
(* " - " separated parts: "ajax-sneaker-outlet" is <<"ajax", "sneaker",    *)
(* "outlet">>, "Ajax - Outlet" is <<"Ajax", "Outlet">>.                    *)
(***************************************************************************)
\* str.lower() on one part
Lower(tok) ==
    IF tok \in {"Outlet", "OUTLET"} THEN "outlet"
    ELSE IF tok \in {"Perso", "PERSO"} THEN "perso"
    ELSE IF tok = "A" THEN "a" ELSE IF tok = "B" THEN "b"
    ELSE IF tok = "C" THEN "c" ELSE IF tok = "U" THEN "u"
    ELSE IF tok = "AX" THEN "ax"
    ELSE tok

\* handle.endswith("-outlet")
EndsWithOutletHandle(h) == Len(h) >= 2 /\ h[Len(h)] = "outlet"

\* title.endswith(" - Outlet")
EndsWithOutletTitle(t) == Len(t) >= 2 /\ t[Len(t)] = "Outlet"

\* outlet_handle = f"{source_handle}-outlet"
OutletHandle(source_handle) == Append(source_handle, "outlet")

\* the title rule without its test of the ending
OutletTitleAppend(source_title) == Append(source_title, "Outlet")

\* outlet_title: source_title if it ends with " - Outlet", else with it appended
OutletTitle(source_title) ==
    IF EndsWithOutletTitle(source_title) THEN source_title
    ELSE Append(source_title, "Outlet")

\* final_handle = f"{outlet_handle}-{suffix}"
SuffixedHandle(outlet_handle, suffix) == outlet_handle \o NatDigits(suffix)

(***************************************************************************)
(* The pure helpers applied to bounded inputs                              *)
(***************************************************************************)
RawPrices ==
    { NoneV, Some(<<>>), Some(<<" ">>), Some(<<"0">>), Some(<<"0", ",", "0">>),
      Some(<<"5", "9", ".", "9", "0">>), Some(<<"3", "9", ",", "9">>),
      Some(<<"E", " ", "1", "2", "9">>), Some(<<"1", ".", "2", ",", "5">>),
      Some(<<"n", "a">>), Some(<<" ", "7", ".">>) }

ApplySyncPrice ==
    /\ fn = "sync_price" /\ IsNone(ret)
    /\ ret' = Some(SyncPricePair(arg.full, arg.sale))
    /\ UNCHANGED <<fn, arg>>

ApplyFixPrice ==
    /\ fn = "fix_price" /\ IsNone(ret)
    /\ ret' = Some(FixPricePair(arg.full, arg.sale))
    /\ UNCHANGED <<fn, arg>>

(***************************************************************************)
(* The rate-limited clients.  One call is a loop of dispatches; the        *)
(* transport answers each dispatch with any response of Responses.         *)
(* status 0 stands for requests raising a RequestException (no response).  *)
(***************************************************************************)
MaxRetriesBound == 4

SyncBackoffCap == 8
ClientBackoffCap == 20
DefaultRetryAfter == 1

Response(st, errs, ra) == [status |-> st, errors |-> errs, retry_after |-> ra]

Responses ==
    { Response(200, FALSE, NoneV), Response(200, TRUE, NoneV),
      Response(429, FALSE, NoneV), Response(429, FALSE, Some(2)),
      Response(503, FALSE, NoneV), Response(422, FALSE, NoneV),
      Response(302, FALSE, NoneV), Response(0, FALSE, NoneV) }

GwKinds == {"sync_rest", "sync_graphql", "client_rest", "client_graphql"}

\* SHOPIFY_MIN_INTERVAL_SEC, SHOPIFY_REST_MIN_INTERVAL_MS and
\* SHOPIFY_GQL_MIN_INTERVAL_MS as set by the operator, in quarter seconds
MinIntervals == {1, 6}

\* the time since the instance's last call when a call begins
IdleTimes == {0, 40}

RECURSIVE Pow2(_)
Pow2(n) == IF n = 0 THEN 1 ELSE 2 * Pow2(n - 1)

Min(a, b) == IF a < b THEN a ELSE b

Returned(r) == [tag |-> "Returned", resp |-> r]
Raised(what) == [tag |-> "Raised", error |-> what]

IsRateLimit(r, kind) ==
    IF kind \in {"sync_rest", "sync_graphql"} THEN r.status = 429
    ELSE r.status \in {429, 430}

IsServerError(r) == r.status >= 500 /\ r.status < 600

\* The number of dispatches one call may make: range(1, max_retries + 1) in
\* sync.Shopify, range(self._max_retries + 1) in ShopifyClient.
LoopBound(kind, n) ==
    IF kind \in {"sync_rest", "sync_graphql"} THEN n ELSE n + 1

\* float(r.headers.get("Retry-After", 1.0))
RetryAfter(r) == IF IsNone(r.retry_after) THEN DefaultRetryAfter ELSE r.retry_after.val

GwPending == gw_result = NoneV

GwIdle ==
    /\ gw_kind = "none" /\ max_retries = 0 /\ attempt = 0 /\ resps = <<>>
    /\ backoff = 1 /\ slept = <<>> /\ gw_result = Raised("idle")
    /\ min_interval = 0 /\ since = 0 /\ gaps = <<>>

\* Times are counted in quarters of a second.
Ticks == 4

\* _jitter(base) = base * (0.75 + random.random() * 0.5): a factor from 0.75
\* up to 1.25; on the grid of quarter seconds, 0.75 or 1.
Jitter(base) == {3 * base, 4 * base}

\* Shopify._throttle and ShopifyClient._respect_min_interval: the sleep that
\* fills the minimum interval when less than it has passed since the
\* recorded time of the last call.
Throttle(elapsed, min) == IF elapsed < min THEN min - elapsed ELSE 0

\* time.sleep(x) before the loop goes round
Sleep(x) == slept' = Append(slept, x) /\ since' = x

\* the loop goes round, or is left, without a sleep
NoSleep == UNCHANGED slept /\ since' = 0

\* The time between the recorded time of the last call and this dispatch.
\* sync.Shopify throttles inside the loop, before every attempt;
\* ShopifyClient throttles once, before the loop.
Dispatch(r) ==
    /\ attempt' = attempt + 1
    /\ resps' = Append(resps, r)
    /\ gaps' = Append(gaps,
           IF gw_kind \in {"sync_rest", "sync_graphql"} \/ attempt = 0
             THEN since + Throttle(since, min_interval)
             ELSE since)
    /\ UNCHANGED <<gw_kind, max_retries, min_interval>>

\* Shopify._request followed by the status test of _get/_post/_put/_delete.
SyncRestStep(r) ==
    /\ gw_kind = "sync_rest" /\ GwPending /\ attempt < LoopBound(gw_kind, max_retries)
    /\ Dispatch(r)
    /\ UNCHANGED backoff
    /\ IF r.status = 0
         THEN gw_result' = Raised("RequestException") /\ NoSleep
       ELSE IF IsRateLimit(r, gw_kind)
         THEN Sleep(RetryAfter(r) * Ticks) /\ UNCHANGED gw_result
       ELSE IF IsServerError(r)
         THEN Sleep(Min(Pow2(attempt' - 1), SyncBackoffCap) * Ticks) /\ UNCHANGED gw_result
       ELSE /\ NoSleep
            /\ gw_result' = IF r.status >= 400 THEN Raised(r.status) ELSE Returned(r)

\* The loop of Shopify._request ran out: "return r", then the caller's test.
SyncRestExhausted ==
    /\ gw_kind = "sync_rest" /\ GwPending /\ attempt = LoopBound(gw_kind, max_retries)
    /\ gw_result' = IF resps = <<>> THEN Raised("UnboundLocalError")
                     ELSE IF resps[Len(resps)].status >= 400
                            THEN Raised(resps[Len(resps)].status)
                            ELSE Returned(resps[Len(resps)])
    /\ UNCHANGED <<gw_kind, max_retries, attempt, resps, backoff, slept,
                   min_interval, since, gaps>>

\* Shopify.graphql
SyncGraphqlStep(r) ==
    /\ gw_kind = "sync_graphql" /\ GwPending /\ attempt < LoopBound(gw_kind, max_retries)
    /\ Dispatch(r)
    /\ UNCHANGED backoff
    /\ IF r.status = 0
         THEN gw_result' = Raised("RequestException") /\ NoSleep
       ELSE IF IsRateLimit(r, gw_kind)
         THEN Sleep(RetryAfter(r) * Ticks) /\ UNCHANGED gw_result
       ELSE IF IsServerError(r)
         THEN Sleep(Min(Pow2(attempt' - 1), SyncBackoffCap) * Ticks) /\ UNCHANGED gw_result
       ELSE /\ NoSleep
            /\ gw_result' = IF r.status >= 400 THEN Raised(r.status)
                             ELSE IF r.errors THEN Raised("GraphQL errors")
                             ELSE Returned(r)

SyncGraphqlExhausted ==
    /\ gw_kind = "sync_graphql" /\ GwPending /\ attempt = LoopBound(gw_kind, max_retries)
    /\ gw_result' = Raised("GraphQL failed after retries")
    /\ UNCHANGED <<gw_kind, max_retries, attempt, resps, backoff, slept,
                   min_interval, since, gaps>>

\* sleep_s = _jitter(backoff); backoff = min(backoff * 2, 20); time.sleep(sleep_s)
BackoffSleep ==
    /\ \E s \in Jitter(backoff) : Sleep(s)
    /\ backoff' = Min(backoff * 2, ClientBackoffCap)

\* ShopifyClient._rest.  raise_for_status raises an HTTPError, which is a
\* RequestException and so lands in the except clause of the loop body.
ClientRestStep(r) ==
    /\ gw_kind = "client_rest" /\ GwPending /\ attempt < LoopBound(gw_kind, max_retries)
    /\ Dispatch(r)
    /\ IF r.status \in {200, 201, 202, 204}
         THEN gw_result' = Returned(r) /\ NoSleep /\ UNCHANGED backoff
       ELSE IF IsRateLimit(r, gw_kind) /\ ~IsNone(r.retry_after)
         THEN Sleep(r.retry_after.val * Ticks) /\ UNCHANGED <<gw_result, backoff>>
       ELSE IF IsRateLimit(r, gw_kind) \/ IsServerError(r)
         THEN BackoffSleep /\ UNCHANGED gw_result
       ELSE IF r.status = 0 \/ r.status >= 400
         THEN IF attempt >= max_retries
                THEN gw_result' = Raised("RequestException") /\ NoSleep /\ UNCHANGED backoff
                ELSE BackoffSleep /\ UNCHANGED gw_result
       ELSE NoSleep /\ UNCHANGED <<gw_result, backoff>>

ClientRestExhausted ==
    /\ gw_kind = "client_rest" /\ GwPending /\ attempt = LoopBound(gw_kind, max_retries)
    /\ gw_result' = Raised("REST exhausted retries")
    /\ UNCHANGED <<gw_kind, max_retries, attempt, resps, backoff, slept,
                   min_interval, since, gaps>>

\* ShopifyClient.graphql: nothing catches what the post or raise_for_status raises.
ClientGraphqlStep(r) ==
    /\ gw_kind = "client_graphql" /\ GwPending /\ attempt < LoopBound(gw_kind, max_retries)
    /\ Dispatch(r)
    /\ IF r.status = 0
         THEN gw_result' = Raised("RequestException") /\ NoSleep /\ UNCHANGED backoff
       ELSE IF r.status = 200
         THEN /\ gw_result' = IF r.errors THEN Raised("GraphQL errors") ELSE Returned(r)
              /\ NoSleep /\ UNCHANGED backoff
       ELSE IF (IsRateLimit(r, gw_kind) \/ r.status >= 500) /\ ~IsNone(r.retry_after)
         THEN Sleep(r.retry_after.val * Ticks) /\ UNCHANGED <<gw_result, backoff>>
       ELSE IF IsRateLimit(r, gw_kind) \/ r.status >= 500
         THEN BackoffSleep /\ UNCHANGED gw_result
       ELSE IF r.status >= 400
         THEN gw_result' = Raised("HTTPError") /\ NoSleep /\ UNCHANGED backoff
       ELSE NoSleep /\ UNCHANGED <<gw_result, backoff>>

ClientGraphqlExhausted ==
    /\ gw_kind = "client_graphql" /\ GwPending /\ attempt = LoopBound(gw_kind, max_retries)
    /\ gw_result' = Raised("GraphQL exhausted retries")
    /\ UNCHANGED <<gw_kind, max_retries, attempt, resps, backoff, slept,
                   min_interval, since, gaps>>

(***************************************************************************)
(* The remote shop as sync.py sees it                                      *)
(***************************************************************************)
SourceSearchFirst == 10
SourceVariantsFirst == 100
OutletSearchFirst == 20
OutletVariantsFirst == 5
HandleSearchFirst == 5
HandleSuffixLimit == 10

PROMO == "Promo"
MAGAZZINO == "Magazzino"

SetMin(S) == CHOOSE x \in S : \A y \in S : x <= y

RECURSIVE SortedIds(_)
SortedIds(S) ==
    IF S = {} THEN <<>> ELSE <<SetMin(S)>> \o SortedIds(S \ {SetMin(S)})

FirstN(seq, n) == SubSeq(seq, 1, Min(n, Len(seq)))

\* The first element of seq that satisfies P, as "for x in seq: if P(x): return x".
FirstMatch(seq, P(_)) ==
    LET hits == {i \in 1..Len(seq) : P(seq[i])}
    IN IF hits = {} THEN NoneV ELSE Some(seq[SetMin(hits)])

\* What the shop's search matches for "sku:<q>": the SKU itself and SKUs it is
\* a prefix of.
SkuPrefixPairs == {<<"A", "AX">>}
QueryMatches(q, vsku) == vsku = q \/ <<q, vsku>> \in SkuPrefixPairs

Reverse(seq) == [i \in 1..Len(seq) |-> seq[Len(seq) + 1 - i]]

\* The queries name no sortKey, so the order of the edges is the shop's: the
\* oldest product first or the newest first.
SearchOrder(S) == IF newest_first THEN Reverse(SortedIds(S)) ELSE SortedIds(S)

\* products(query: "sku:<q>"): the ids of the matching products, in the
\* shop's order.
SearchBySku(P, q) ==
    SearchOrder({id \in DOMAIN P :
        \E i \in 1..Len(P[id].variants) : QueryMatches(q, P[id].variants[i].sku)})

\* products(query: "handle:<h>")
SearchByHandle(P, h) == SearchOrder({id \in DOMAIN P : P[id].handle = h})

HasSkuInFirst(p, sku, n) ==
    \E i \in 1..Min(n, Len(p.variants)) : p.variants[i].sku = sku

\* a lookup that takes the first product of the shop, whatever its SKUs
find_first_product(P, sku) ==
    IF DOMAIN P = {} THEN NoneV ELSE Some(SetMin(DOMAIN P))

\* Shopify.find_product_by_sku_non_outlet
find_product_by_sku_non_outlet(P, sku) ==
    FirstMatch(FirstN(SearchBySku(P, sku), SourceSearchFirst),
               LAMBDA id : /\ ~EndsWithOutletHandle(P[id].handle)
                           /\ HasSkuInFirst(P[id], sku, SourceVariantsFirst))

\* "outlet" in handle.lower(); "outlet" in title.lower() or title.endswith(" - Outlet")
HandleHasOutlet(h) == \E i \in 1..Len(h) : Lower(h[i]) = "outlet"
TitleHasOutlet(t) == (\E i \in 1..Len(t) : Lower(t[i]) = "outlet") \/ EndsWithOutletTitle(t)
IsOutlet(p) == HandleHasOutlet(p.handle) \/ TitleHasOutlet(p.title)

\* Shopify.find_outlet_by_sku
find_outlet_by_sku(P, sku) ==
    FirstMatch(FirstN(SearchBySku(P, sku), OutletSearchFirst),
               LAMBDA id : IsOutlet(P[id]) /\ HasSkuInFirst(P[id], sku, OutletVariantsFirst))

\* Shopify.find_product_by_handle
find_product_by_handle(P, h) ==
    FirstMatch(FirstN(SearchByHandle(P, h), HandleSearchFirst), LAMBDA id : P[id].handle = h)

HandleTaken(P, h, except) == \E id \in DOMAIN P \ {except} : P[id].handle = h

\* The handle the shop gives a new product: the slug of its title, with the
\* first free numeric suffix when that is taken.
Slug(title) == [i \in 1..Len(title) |-> Lower(title[i])]

FreeHandle(P, base) ==
    IF ~HandleTaken(P, base, 0) THEN base
    ELSE SuffixedHandle(base,
             SetMin({k \in 1..(Cardinality(DOMAIN P) + 1) :
                        ~HandleTaken(P, SuffixedHandle(base, k), 0)}))

\* productDuplicate(productId, newTitle): a copy of the product, variants and
\* their inventory levels included, under a new id, title and handle.
RemoteDuplicate(P, src, new, new_title, st, sku) ==
    (new :> [P[src] EXCEPT !.title = new_title,
                           !.handle = FreeHandle(P, Slug(new_title)),
                           !.status = st,
                           !.made_for = sku]) @@ P

RemoteDelete(P, id) == [x \in DOMAIN P \ {id} |-> P[x]]

\* str(RuntimeError(f"{method} {path} -> {r.status_code}")), in words
ErrorText(method, path, status) == <<method>> \o path \o <<"->", ToString(status)>>

ProductPath(id) == <<"/products/", ToString(id), ".json">>

\* "taken" in str(e).lower()
SaysTaken(text) == \E i \in 1..Len(text) : text[i] = "taken"

(***************************************************************************)
(* Inventory levels of one variant: a function from the locations the      *)
(* variant is connected to, to the quantity available there.               *)
(***************************************************************************)
NoLevels == [l \in {} |-> 0]

\* POST /inventory_levels/connect.json
RemoteConnect(levels, l) == IF l \in DOMAIN levels THEN levels ELSE (l :> 0) @@ levels

\* DELETE /inventory_levels.json
RemoteDeleteLevel(levels, l) == [x \in DOMAIN levels \ {l} |-> levels[x]]

Variant(sku, size, levels) ==
    [sku |-> sku, size |-> size, price |-> Some(<<"9", "9", ".", "0", "0">>),
     compare_at |-> NoneV, levels |-> levels]

Product(handle, title, status, variants) ==
    [handle |-> handle, title |-> title, status |-> status, tags |-> {"sale"},
     variants |-> variants, images |-> <<"img1", "img2">>, metafields |-> {"mf1"},
     collects |-> <<"col1">>, made_for |-> ""]

InStock == (MAGAZZINO :> 3)

SourceA == Product(<<"a">>, <<"A">>, "ACTIVE",
                   <<Variant("A", "40", InStock), Variant("A", "41", InStock)>>)
SourceB == Product(<<"b">>, <<"B">>, "ACTIVE", <<Variant("B", "40", InStock)>>)
SourceC == Product(<<"c">>, <<"C">>, "DRAFT", <<Variant("C", "40", NoLevels)>>)

\* a product of the shop that carries the handle "a-outlet" and another SKU
Unrelated == Product(<<"a", "outlet">>, <<"U">>, "ACTIVE", <<Variant("Z", "40", InStock)>>)

\* an outlet of A left by an earlier run
OutletOfA(status) ==
    [Product(<<"a", "outlet">>, <<"A", "Outlet">>, status,
             <<Variant("A", "40", (PROMO :> 1)), Variant("A", "41", (PROMO :> 0))>>)
       EXCEPT !.made_for = "A", !.tags = {}]

\* a source whose variants carry their own SKUs, the sheet's SKU on the sixth
SourceA6 == Product(<<"a">>, <<"A">>, "ACTIVE",
                    <<Variant("A1", "36", InStock), Variant("A2", "37", InStock),
                      Variant("A3", "38", InStock), Variant("A4", "39", InStock),
                      Variant("A5", "40", InStock), Variant("A", "41", InStock)>>)

\* a source whose title already ends with " - Outlet"
SourceTitled(status) ==
    Product(<<"a", "sale">>, <<"A", "Outlet">>, status,
            <<Variant("A", "40", InStock), Variant("A", "41", InStock)>>)

\* a product whose SKU the search for "A" also matches
PrefixAX == Product(<<"ax">>, <<"AX">>, "ACTIVE", <<Variant("AX", "40", InStock)>>)

Catalogs ==
    { (1 :> SourceA) @@ (2 :> SourceB) @@ (3 :> SourceC),
      (1 :> SourceA) @@ (2 :> SourceC),
      (1 :> SourceA) @@ (2 :> Unrelated),
      (1 :> SourceA) @@ (2 :> OutletOfA("ACTIVE")),
      (1 :> SourceA) @@ (2 :> OutletOfA("DRAFT")),
      (1 :> SourceA6),
      (1 :> SourceTitled("ACTIVE")),
      (1 :> SourceTitled("DRAFT")),
      (1 :> PrefixAX) @@ (2 :> SourceA) }

Row(i, sku, taglia, qta, online, pieno, scontato) ==
    [row_index |-> i, sku |-> sku, taglia |-> taglia, qta |-> qta, online |-> online,
     prezzo_pieno |-> pieno, prezzo_scontato |-> scontato, product_id |-> NoneV]

P5990 == Some(<<"5", "9", ".", "9", "0">>)
P3990 == Some(<<"3", "9", ",", "9">>)

Sheets ==
    { <<Row(2, "A", "40", 2, "SI", P5990, P3990), Row(3, "B", "40", 1, "SI", P5990, NoneV),
        Row(4, "C", "40", 1, "SI", NoneV, P3990)>>,
      <<Row(2, "A", "41", 2, "SI", P5990, P3990), Row(3, "A", "40", 1, "SI", NoneV, NoneV),
        Row(4, "A", "40", 5, "NO", P5990, P3990), Row(5, "B", "40", 0, "SI", P5990, P3990),
        Row(6, "", "40", 1, "SI", P5990, P3990)>>,
      <<Row(2, "A", "44", 1, "SI", NoneV, P3990)>>,
      <<Row(2, "A", "", 2, "SI", P5990, Some(<<"0">>))>>,
      <<Row(2, "B", "40", 0, "SI", P5990, P3990)>>,
      <<Row(2, "A", "40", 1, "SI", P5990, P3990), Row(3, "A", "41", 2, "SI", P5990, P3990),
        Row(4, "B", "40", 1, "SI", P5990, P3990)>>,
      <<Row(2, "A", "44", 1, "SI", P5990, P3990), Row(3, "A", "41", 2, "SI", P5990, P3990)>> }

\* _truthy_si on the cell of the "online" column
truthy_si(v) == v \in {"SI", "si", "x", "1"}

\* main(): rows with online=SI and Qta>0
Selected(rows) == SelectSeq(rows, LAMBDA r : truthy_si(r.online) /\ r.qta > 0)

RECURSIVE SkuOrder(_)
SkuOrder(rows) ==
    IF rows = <<>> THEN <<>>
    ELSE LET rest == SkuOrder(SubSeq(rows, 1, Len(rows) - 1))
             sku == rows[Len(rows)].sku
         IN IF sku = "" \/ sku \in Range(rest) THEN rest ELSE Append(rest, sku)

\* main(): grouped_by_sku, a dict in insertion order
GroupBySku(selected) ==
    LET order == SkuOrder(selected)
    IN [g \in 1..Len(order) |->
           [sku |-> order[g], rows |-> SelectSeq(selected, LAMBDA r : r.sku = order[g])]]

(***************************************************************************)
(* A run: which script is started, its command line and environment.       *)
(***************************************************************************)
MaxRuns == 2
MaxFaults == 1

Config(program, apply, promo_name, mag_name) ==
    [program |-> program, apply |-> apply, dry_run_flag |-> FALSE,
     run_mode |-> Some("SYNC"), promo_name |-> promo_name, mag_name |-> mag_name,
     sheet_ok |-> TRUE, env_ok |-> TRUE, pid_col |-> TRUE]

DefaultConfig == Config("sync", TRUE, Some(PROMO), Some(MAGAZZINO))

Configs ==
    { DefaultConfig,
      Config("sync", FALSE, Some(PROMO), Some(MAGAZZINO)),
      Config("sync", TRUE, Some(PROMO), NoneV),
      Config("sync", TRUE, NoneV, Some(MAGAZZINO)),
      Config("sync", TRUE, Some(PROMO), Some("Deposito")),
      [DefaultConfig EXCEPT !.sheet_ok = FALSE],
      [DefaultConfig EXCEPT !.env_ok = FALSE],
      [DefaultConfig EXCEPT !.pid_col = FALSE],
      Config("main", FALSE, Some(PROMO), Some(MAGAZZINO)),
      [Config("main", FALSE, Some(PROMO), Some(MAGAZZINO)) EXCEPT !.run_mode = NoneV],
      [Config("main", FALSE, Some(PROMO), Some(MAGAZZINO)) EXCEPT !.run_mode = Some("BOGUS")],
      [Config("main", FALSE, Some(PROMO), Some(MAGAZZINO)) EXCEPT !.sheet_ok = FALSE],
      Config("fix_prices", TRUE, Some(PROMO), Some(MAGAZZINO)),
      Config("fix_prices", FALSE, Some(PROMO), Some(MAGAZZINO)),
      [Config("fix_prices", TRUE, Some(PROMO), Some(MAGAZZINO)) EXCEPT !.dry_run_flag = TRUE],
      [Config("fix_prices", TRUE, Some(PROMO), Some(MAGAZZINO)) EXCEPT !.sheet_ok = FALSE],
      [Config("fix_prices", TRUE, Some(PROMO), Some(MAGAZZINO)) EXCEPT !.env_ok = FALSE] }

\* the Product_Id cell of a row: a gid or a handle
Gid(id) == Some([kind |-> "gid", id |-> id])
ByHandle(h) == Some([kind |-> "handle", handle |-> h])

\* sheets whose Product_Id column an earlier run has filled
FilledSheets ==
    { <<[Row(2, "A", "40", 2, "SI", P5990, P3990) EXCEPT !.product_id = Gid(2)],
        [Row(3, "B", "40", 1, "SI", NoneV, P3990) EXCEPT !.product_id = ByHandle(<<"b">>)],
        [Row(4, "C", "40", 1, "SI", Some(<<"0">>), P3990) EXCEPT !.product_id = ByHandle(<<"c">>)]>>,
      <<[Row(2, "A", "40", 2, "SI", P5990, NoneV) EXCEPT !.product_id = Gid(7)],
        [Row(3, "B", "40", 1, "SI", P5990, P3990) EXCEPT !.product_id = ByHandle(<<"zz">>)]>> }

FilledCatalog ==
    (1 :> SourceA) @@ (2 :> OutletOfA("ACTIVE")) @@ (3 :> SourceB) @@ (4 :> SourceC)

Stats0 ==
    [success |-> 0, success_dry |-> 0, skip_active |-> 0, skip_source |-> 0,
     skip_not_found |-> 0, skip_draft |-> 0, skip_no_product_id |-> 0,
     errors |-> 0, taglie_gestite |-> 0]

Loc0 ==
    [sku |-> "", rows |-> <<>>, prezzo_pieno |-> NoneV, prezzo_scontato |-> NoneV,
     source_gid |-> 0, source_handle |-> <<>>, source_title |-> <<>>,
     outlet_handle |-> <<>>, outlet_title |-> <<>>, existing |-> 0,
     outlet_gid |-> 0, final_handle |-> <<>>, suffix |-> 1]

GHist0 == [faulted |-> FALSE, raised |-> FALSE, dup_while_active |-> FALSE]

NoFault == [kind |-> "none", k |-> 0]
F(kind, k) == [kind |-> kind, k |-> k]

\* the failures the remote side may still inject in this behaviour
FaultsHere(S) == {NoFault} \cup (IF faults < MaxFaults THEN S ELSE {})

Call(op, mut, pid, vi, l, ok) ==
    [op |-> op, mut |-> mut, pid |-> pid, vi |-> vi, l |-> l, ok |-> ok, qty |-> 0]

\* POST /inventory_levels/set.json with "available": qty
SetCall(pid, vi, l, qty, ok) == [Call("inv_set", TRUE, pid, vi, l, ok) EXCEPT !.qty = qty]

RECURSIVE Flatten(_)
Flatten(ss) == IF ss = <<>> THEN <<>> ELSE ss[1] \o Flatten(Tail(ss))

\* a log that puts the newest calls first
NoteFirst(f, cs) ==
    /\ faults' = IF f = NoFault THEN faults ELSE faults + 1
    /\ ghist' = [ghist EXCEPT !.faulted = @ \/ f # NoFault]
    /\ calls' = cs \o calls

\* what a step leaves in the log of the group: its calls, in the order the
\* code issues them, after the calls of the steps before it
Note(f, cs) ==
    /\ faults' = IF f = NoFault THEN faults ELSE faults + 1
    /\ ghist' = [ghist EXCEPT !.faulted = @ \/ f # NoFault]
    /\ calls' = calls \o cs

Goto(p) == pc' = p /\ UNCHANGED result
\* an exception that is swallowed: the group goes on to its write-back
Swallow(what) == pc' = "writeback" /\ UNCHANGED result
Return(v) == pc' = "returned" /\ result' = Returned(v)
Raise(what) == pc' = "raised" /\ result' = Raised(what)

pureVars == <<fn, arg, ret>>
gwVars ==
    <<gw_kind, max_retries, attempt, resps, backoff, slept, gw_result,
      min_interval, since, gaps>>
inputVars == <<cfg, sheet>>
shopVars == <<products, next_id, remote_locs, newest_first>>
mainVars == <<run, groups, gi, stats, exit_code, location_cache>>
obsVars == <<outcomes, prev_outcomes, products0>>
wfVars == <<inputVars, shopVars, mainVars, obsVars, pc, loc, result, calls, ghist, faults>>
resetVars ==
    <<shop_variants, next_vid, skip_filter, rpc, variant_backup, inventory_backup,
      variant_mapping, vidx, reset_ret, reset_calls>>
vars == <<pureVars, gwVars, wfVars, resetVars>>
otherVars == <<pureVars, gwVars, resetVars>>

ResetIdle ==
    /\ shop_variants = <<>> /\ next_vid = 1 /\ skip_filter = "" /\ rpc = "idle"
    /\ variant_backup = <<>> /\ inventory_backup = <<>> /\ variant_mapping = <<>>
    /\ vidx = 0 /\ reset_ret = NoneV /\ reset_calls = <<>>

WfIdle ==
    /\ cfg = DefaultConfig /\ sheet = <<>>
    /\ products = <<>> /\ next_id = 1 /\ remote_locs = {} /\ newest_first = FALSE
    /\ pc = "idle" /\ run = 0 /\ groups = <<>> /\ gi = 0 /\ stats = Stats0
    /\ exit_code = NoneV /\ location_cache = NoneV
    /\ loc = Loc0 /\ result = NoneV /\ calls = <<>>
    /\ outcomes = <<>> /\ prev_outcomes = <<>> /\ ghist = GHist0 /\ faults = 0
    /\ products0 = <<>>

Scenarios ==
    {<<c, sh, DefaultConfig>> : c \in Catalogs, sh \in Sheets}
      \cup {<<(1 :> SourceA) @@ (2 :> SourceB) @@ (3 :> SourceC), sh, k>> :
               sh \in Sheets, k \in Configs}
      \cup {<<FilledCatalog, sh, k>> :
               sh \in FilledSheets, k \in {x \in Configs : x.program = "fix_prices"}}

Init ==
    /\ fn = "none" /\ arg = NoneV /\ ret = NoneV
    /\ gw_kind = "none" /\ max_retries = 0 /\ attempt = 0 /\ resps = <<>>
    /\ backoff = 1 /\ slept = <<>> /\ gw_result = Raised("idle")
    /\ min_interval = 0 /\ since = 0 /\ gaps = <<>>
    /\ \E sc \in Scenarios :
          /\ products = sc[1] /\ products0 = sc[1]
          /\ sheet = sc[2]
          /\ cfg = sc[3]
          /\ next_id = 1 + Cardinality(DOMAIN sc[1])
    /\ remote_locs = {PROMO, MAGAZZINO}
    /\ newest_first \in BOOLEAN
    /\ pc = "start" /\ run = 1 /\ groups = <<>> /\ gi = 0 /\ stats = Stats0
    /\ exit_code = NoneV /\ location_cache = NoneV
    /\ loc = Loc0 /\ result = NoneV /\ calls = <<>>
    /\ outcomes = <<>> /\ prev_outcomes = <<>> /\ ghist = GHist0 /\ faults = 0
    /\ ResetIdle

(***************************************************************************)
(* main.py and sync.main(): from the command line to the group loop        *)
(***************************************************************************)
Exit(code) == pc' = "exit" /\ exit_code' = Some(code)

\* main.py main() and run_sync(): RUN_MODE is checked, then sync.main() runs
\* with sys.argv = ["sync.py", "--apply"].
MainPy ==
    /\ pc = "start" /\ cfg.program = "main"
    /\ IF IsNone(cfg.run_mode) \/ cfg.run_mode.val \notin {"SYNC", "REORDER"}
         THEN Exit(1) /\ UNCHANGED cfg
         ELSE /\ cfg' = [cfg EXCEPT !.apply = TRUE]
              /\ pc' = "sync_main" /\ UNCHANGED exit_code
    /\ UNCHANGED <<sheet, shopVars, run, groups, gi, stats, location_cache, obsVars,
                   loc, result, calls, ghist, faults, otherVars>>

\* sync.main(): without --apply it returns at once.
SyncMain ==
    /\ \/ pc = "sync_main"
       \/ pc = "start" /\ cfg.program = "sync"
    /\ IF ~cfg.apply THEN Exit(0) ELSE pc' = "read" /\ UNCHANGED exit_code
    /\ UNCHANGED <<inputVars, shopVars, run, groups, gi, stats, location_cache, obsVars,
                   loc, result, calls, ghist, faults, otherVars>>

\* sync.main(): gs_read_rows, the online/Qta filter, the grouping by SKU.  An
\* exception of gs_read_rows leaves main(): run_sync turns it into
\* sys.exit(1), the interpreter into exit status 1.
SyncReadRows ==
    /\ pc = "read"
    /\ IF ~cfg.sheet_ok THEN Exit(1) /\ UNCHANGED groups
       ELSE IF Selected(sheet) = <<>> THEN Exit(0) /\ UNCHANGED groups
       ELSE /\ groups' = GroupBySku(Selected(sheet))
            /\ pc' = "init_shop" /\ UNCHANGED exit_code
    /\ UNCHANGED <<inputVars, shopVars, run, gi, stats, location_cache, obsVars,
                   loc, result, calls, ghist, faults, otherVars>>

\* sync.main(): shop = Shopify() and the empty statistics.
SyncInitShop ==
    /\ pc = "init_shop"
    /\ IF ~cfg.env_ok THEN Exit(1) /\ UNCHANGED <<gi, stats, location_cache>>
       ELSE /\ gi' = 1 /\ stats' = Stats0 /\ location_cache' = NoneV
            /\ pc' = "group" /\ UNCHANGED exit_code
    /\ UNCHANGED <<inputVars, shopVars, run, groups, obsVars,
                   loc, result, calls, ghist, faults, otherVars>>

\* The loop of main() takes the next group; process_sku_group starts and
\* reads the prices of the group's first row.
BeginGroup ==
    /\ pc = "group" /\ gi <= Len(groups)
    /\ LET rows == groups[gi].rows
           pair == SyncPricePair(rows[1].prezzo_pieno, rows[1].prezzo_scontato)
       IN loc' = [Loc0 EXCEPT !.sku = groups[gi].sku, !.rows = rows,
                              !.prezzo_pieno = pair.compare_at,
                              !.prezzo_scontato = pair.price]
    /\ calls' = <<>> /\ ghist' = GHist0 /\ result' = NoneV
    /\ pc' = "find_source"
    /\ UNCHANGED <<inputVars, shopVars, mainVars, obsVars, faults, otherVars>>

\* main() booking a raised exception as a success
GroupOutcomeLost(res) == IF res.tag = "Raised" THEN "SUCCESS" ELSE res.resp

\* The outcome main() books for what process_sku_group returned or raised.
GroupOutcome(res) == IF res.tag = "Raised" THEN "ERROR" ELSE res.resp

\* statistics that count no error
TallyNoErrors(st, outcome, nrows) ==
    IF outcome = "SUCCESS"
      THEN [st EXCEPT !.success = @ + 1, !.taglie_gestite = @ + nrows]
    ELSE IF outcome = "SKIP_ALREADY_ACTIVE" THEN [st EXCEPT !.skip_active = @ + 1]
    ELSE IF outcome = "SKIP_NO_SOURCE" THEN [st EXCEPT !.skip_source = @ + 1]
    ELSE st

\* The statistics after one group.
Tally(st, outcome, nrows) ==
    IF outcome = "SUCCESS"
      THEN [st EXCEPT !.success = @ + 1, !.taglie_gestite = @ + nrows]
    ELSE IF outcome = "SKIP_ALREADY_ACTIVE" THEN [st EXCEPT !.skip_active = @ + 1]
    ELSE IF outcome = "SKIP_NO_SOURCE" THEN [st EXCEPT !.skip_source = @ + 1]
    ELSE IF outcome = "ERROR" THEN [st EXCEPT !.errors = @ + 1]
    ELSE st

Mutating(cs) == SelectSeq(cs, LAMBDA c : c.mut)

\* main(): the try/except around process_sku_group, then the next group.
RecordResult ==
    /\ pc \in {"returned", "raised"}
    /\ LET outcome == GroupOutcome(result)
       IN /\ stats' = Tally(stats, outcome, Len(loc.rows))
          /\ outcomes' = Append(outcomes,
                 [sku |-> loc.sku, outcome |-> outcome, raised |-> pc = "raised",
                  faulted |-> ghist.faulted, mutating |-> Len(Mutating(calls)),
                  failed |-> {calls[k].op : k \in {x \in 1..Len(calls) : ~calls[x].ok}}])
    /\ gi' = gi + 1
    /\ pc' = "group"
    /\ UNCHANGED <<inputVars, shopVars, run, groups, exit_code, location_cache,
                   prev_outcomes, products0, loc, result, calls, ghist, faults, otherVars>>

\* main(): the final report; main() returns and the process ends with status 0.
Report ==
    /\ pc = "group" /\ gi > Len(groups)
    /\ Exit(0)
    /\ UNCHANGED <<inputVars, shopVars, run, groups, gi, stats, location_cache, obsVars,
                   loc, result, calls, ghist, faults, otherVars>>

\* The script is started again on the same sheet and shop.
NewRun ==
    /\ pc = "exit" /\ run < MaxRuns
    /\ run' = run + 1 /\ pc' = "start"
    /\ prev_outcomes' = outcomes /\ outcomes' = <<>> /\ products0' = products
    /\ groups' = <<>> /\ gi' = 0 /\ stats' = Stats0 /\ exit_code' = NoneV
    /\ location_cache' = NoneV /\ loc' = Loc0 /\ result' = NoneV
    /\ calls' = <<>> /\ ghist' = GHist0
    /\ UNCHANGED <<inputVars, shopVars, faults, otherVars>>

(***************************************************************************)
(* process_sku_group, step by step.  Each step is the code between two     *)
(* remote round trips that decide where the group goes next; the remote    *)
(* side may fail one call of a step.                                       *)
(***************************************************************************)
RemoteStatus(s) == IF s = "active" THEN "ACTIVE" ELSE s

ActiveOutletsOf(P, sku) ==
    {id \in DOMAIN P : P[id].made_for = sku /\ P[id].status = "ACTIVE"}

\* 2. find the source product, 3. the outlet's handle and title
FindSource ==
    /\ pc = "find_source"
    /\ \E f \in FaultsHere({F("fail", 0)}) :
          /\ Note(f, <<Call("find_source", FALSE, 0, 0, "", f = NoFault)>>)
          /\ IF f # NoFault THEN Raise(<<"GraphQL", "failed", "after", "retries">>) /\ UNCHANGED loc
             ELSE LET source == find_product_by_sku_non_outlet(products, loc.sku)
                  IN IF IsNone(source)
                       THEN Return("SKIP_NO_SOURCE") /\ UNCHANGED loc
                       ELSE /\ loc' = [loc EXCEPT
                                 !.source_gid = source.val,
                                 !.source_handle = products[source.val].handle,
                                 !.source_title = products[source.val].title,
                                 !.outlet_handle = OutletHandle(products[source.val].handle),
                                 !.outlet_title = OutletTitle(products[source.val].title)]
                            /\ Goto("find_outlet")
    /\ UNCHANGED <<inputVars, shopVars, mainVars, obsVars, otherVars>>

\* the check for an existing outlet done by the outlet's handle
FindOutletByHandle ==
    /\ pc = "find_outlet"
    /\ \E f \in FaultsHere({F("fail", 0)}) :
          /\ Note(f, <<Call("find_outlet", FALSE, 0, 0, "", f = NoFault)>>)
          /\ IF f # NoFault THEN Raise(<<"GraphQL", "failed", "after", "retries">>) /\ UNCHANGED loc
             ELSE LET existing_outlet == find_product_by_handle(products, loc.outlet_handle)
                  IN IF IsNone(existing_outlet)
                       THEN Goto("duplicate") /\ UNCHANGED loc
                     ELSE IF products[existing_outlet.val].status = "ACTIVE"
                       THEN Return("SKIP_ALREADY_ACTIVE") /\ UNCHANGED loc
                     ELSE /\ loc' = [loc EXCEPT !.existing = existing_outlet.val]
                          /\ Goto("delete_draft")
    /\ UNCHANGED <<inputVars, shopVars, mainVars, obsVars, otherVars>>

\* the check for an existing outlet of the SKU
FindOutlet ==
    /\ pc = "find_outlet"
    /\ \E f \in FaultsHere({F("fail", 0)}) :
          /\ Note(f, <<Call("find_outlet", FALSE, 0, 0, "", f = NoFault)>>)
          /\ IF f # NoFault THEN Raise(<<"GraphQL", "failed", "after", "retries">>) /\ UNCHANGED loc
             ELSE LET existing_outlet == find_outlet_by_sku(products, loc.sku)
                  IN IF IsNone(existing_outlet)
                       THEN Goto("duplicate") /\ UNCHANGED loc
                     ELSE IF products[existing_outlet.val].status = "ACTIVE"
                       THEN Return("SKIP_ALREADY_ACTIVE") /\ UNCHANGED loc
                     ELSE /\ loc' = [loc EXCEPT !.existing = existing_outlet.val]
                          /\ Goto("delete_draft")
    /\ UNCHANGED <<inputVars, shopVars, mainVars, obsVars, otherVars>>

\* shop.delete_product(existing_outlet["id"])
DeleteDraft ==
    /\ pc = "delete_draft"
    /\ \E f \in FaultsHere({F("fail", 0)}) :
          /\ Note(f, <<Call("delete_product", TRUE, loc.existing, 0, "", f = NoFault)>>)
          /\ IF f # NoFault
               THEN Raise(ErrorText("DELETE", ProductPath(loc.existing), 503)) /\ UNCHANGED products
               ELSE products' = RemoteDelete(products, loc.existing) /\ Goto("duplicate")
    /\ UNCHANGED <<inputVars, next_id, remote_locs, newest_first, mainVars, obsVars, loc, otherVars>>

\* 4. shop.product_duplicate(source_gid, outlet_title).  The call may fail, may
\* report userErrors (it does for a product that is gone), or may be carried
\* out while its answer is lost.
Duplicate ==
    /\ pc = "duplicate"
    /\ \E f \in FaultsHere({F("fail", 0), F("user_errors", 0), F("lost", 0)}) :
       \E st \in {"DRAFT"} \cup {products[id].status : id \in DOMAIN products \cap {loc.source_gid}} :
          /\ faults' = IF f = NoFault THEN faults ELSE faults + 1
          /\ ghist' = [ghist EXCEPT
                 !.faulted = @ \/ f # NoFault,
                 !.dup_while_active = @ \/ ActiveOutletsOf(products, loc.sku) # {}]
          /\ calls' = Append(calls, Call("duplicate", TRUE, loc.source_gid, 0, "",
                                         f = NoFault /\ loc.source_gid \in DOMAIN products))
          /\ IF f.kind \in {"fail", "user_errors"} \/ loc.source_gid \notin DOMAIN products
               THEN Raise(<<"productDuplicate", "errors">>) /\ UNCHANGED <<products, next_id, loc>>
               ELSE /\ products' = RemoteDuplicate(products, loc.source_gid, next_id,
                                                   loc.outlet_title, st, loc.sku)
                    /\ next_id' = next_id + 1
                    /\ IF f.kind = "lost"
                         THEN Raise(<<"productDuplicate", "errors">>) /\ UNCHANGED loc
                         ELSE /\ loc' = [loc EXCEPT !.outlet_gid = next_id,
                                                    !.final_handle = loc.outlet_handle,
                                                    !.suffix = 1]
                              /\ Goto("finalize")
    /\ UNCHANGED <<inputVars, remote_locs, newest_first, mainVars, obsVars, otherVars>>

\* an update that sets the handle and the status and leaves the tags alone
update_handle_and_status(P, gid, handle, status, tags) ==
    [P EXCEPT ![gid].handle = handle, ![gid].status = RemoteStatus(status)]

\* Shopify.update_product_basic: one PUT /products/N.json that carries the
\* handle, the status and the tags (the string "" is the empty set of tags).
update_product_basic(P, gid, handle, status, tags) ==
    [P EXCEPT ![gid].handle = handle,
              ![gid].status = RemoteStatus(status),
              ![gid].tags = tags]

\* 5. one turn of the "while True" around update_product_basic.  The shop
\* rejects a handle another product carries with status 422; _put raises
\* RuntimeError("PUT <path> -> <status>").
Finalize ==
    /\ pc = "finalize"
    /\ \E f \in FaultsHere({F("fail", 0)}) :
          LET taken == HandleTaken(products, loc.final_handle, loc.outlet_gid)
              status == IF f # NoFault THEN 503 ELSE IF taken THEN 422 ELSE 200
              e == ErrorText("PUT", ProductPath(loc.outlet_gid), status)
          IN /\ Note(f, <<Call("update_product", TRUE, loc.outlet_gid, 0, "", status = 200)>>)
             /\ IF status = 200
                  THEN /\ products' = update_product_basic(products, loc.outlet_gid,
                                                             loc.final_handle, "active", {})
                       /\ Goto("images") /\ UNCHANGED loc
                ELSE IF SaysTaken(e)
                  THEN /\ loc' = [loc EXCEPT
                              !.final_handle = SuffixedHandle(loc.outlet_handle, loc.suffix),
                              !.suffix = loc.suffix + 1]
                       /\ IF loc.suffix + 1 > HandleSuffixLimit
                            THEN Raise(e) ELSE Goto("finalize")
                       /\ UNCHANGED products
                ELSE Raise(e) /\ UNCHANGED <<products, loc>>
    /\ UNCHANGED <<inputVars, next_id, remote_locs, newest_first, mainVars, obsVars, otherVars>>

\* a step whose failure is raised to the caller
Reraised(next) == Raise(<<"step", "failed">>)

\* "except Exception as e: logger.warning(...)": a failure inside the step is
\* logged and process_sku_group goes on with the next step
Skipped(next) == Goto(next)

Without(seq, k) == [i \in 1..(Len(seq) - 1) |-> IF i < k THEN seq[i] ELSE seq[i + 1]]

\* 6. copy_images inside try/except: the outlet's images are deleted, the
\* source's are posted in order; a failed delete or post is only logged.
CopyImages ==
    /\ pc = "images"
    /\ LET src == products[loc.source_gid].images
           dest == products[loc.outlet_gid].images
       IN \E f \in FaultsHere({F("get_src", 0), F("get_dest", 0)}
                     \cup {F("del", k) : k \in 1..Len(dest)}
                     \cup {F("post", k) : k \in 1..Len(src)}) :
            LET gets == <<Call("images_get", FALSE, loc.source_gid, 0, "", f.kind # "get_src")>>
                          \o (IF f.kind = "get_src" THEN <<>>
                              ELSE <<Call("images_get", FALSE, loc.outlet_gid, 0, "",
                                          f.kind # "get_dest")>>)
                dels == [i \in 1..Len(dest) |->
                            Call("image_delete", TRUE, loc.outlet_gid, i, "", f # F("del", i))]
                posts == [i \in 1..Len(src) |->
                            Call("image_post", TRUE, loc.outlet_gid, i, "", f # F("post", i))]
                kept == IF f.kind = "del" THEN <<dest[f.k]>> ELSE <<>>
                added == IF f.kind = "post" THEN Without(src, f.k) ELSE src
            IN /\ IF f.kind \in {"get_src", "get_dest"}
                    THEN Note(f, gets) /\ UNCHANGED products
                    ELSE /\ Note(f, gets \o dels \o posts)
                         /\ products' = [products EXCEPT
                                            ![loc.outlet_gid].images = kept \o added]
               /\ IF f = NoFault THEN Goto("metafields") ELSE Skipped("metafields")
    /\ UNCHANGED <<inputVars, next_id, remote_locs, newest_first, mainVars, obsVars, loc, otherVars>>

\* 7. copy_metafields inside try/except
CopyMetafields ==
    /\ pc = "metafields"
    /\ LET mfs == products[loc.source_gid].metafields
       IN \E f \in FaultsHere({F("get", 0)} \cup (IF mfs = {} THEN {} ELSE {F("set", 0)})) :
            LET get == <<Call("metafields_get", FALSE, loc.source_gid, 0, "", f.kind # "get")>>
                set == <<Call("metafields_set", TRUE, loc.outlet_gid, 0, "", f.kind # "set")>>
            IN /\ IF f.kind = "get" \/ mfs = {}
                    THEN Note(f, get) /\ UNCHANGED products
                  ELSE IF f.kind = "set"
                    THEN Note(f, get \o set) /\ UNCHANGED products
                  ELSE /\ Note(f, get \o set)
                       /\ products' = [products EXCEPT
                                          ![loc.outlet_gid].metafields = @ \cup mfs]
               /\ IF f = NoFault THEN Goto("collects") ELSE Skipped("collects")
    /\ UNCHANGED <<inputVars, next_id, remote_locs, newest_first, mainVars, obsVars, loc, otherVars>>

\* 8. delete_collects inside try/except; a failed delete is passed over
DeleteCollects ==
    /\ pc = "collects"
    /\ LET collects == products[loc.outlet_gid].collects
       IN \E f \in FaultsHere({F("get", 0)} \cup {F("del", k) : k \in 1..Len(collects)}) :
            LET get == <<Call("collects_get", FALSE, loc.outlet_gid, 0, "", f.kind # "get")>>
                dels == [i \in 1..Len(collects) |->
                            Call("collect_delete", TRUE, loc.outlet_gid, i, "", f # F("del", i))]
            IN /\ IF f.kind = "get"
                    THEN Note(f, get) /\ UNCHANGED products
                    ELSE /\ Note(f, get \o dels)
                         /\ products' = [products EXCEPT ![loc.outlet_gid].collects =
                                            IF f.kind = "del" THEN <<collects[f.k]>> ELSE <<>>]
               /\ IF f = NoFault THEN Goto("prices") ELSE Skipped("prices")
    /\ UNCHANGED <<inputVars, next_id, remote_locs, newest_first, mainVars, obsVars, loc, otherVars>>

\* productVariantsBulkUpdate: price and compareAtPrice on every variant
RemoteSetPrices(vs, price, compare_at) ==
    [i \in 1..Len(vs) |-> [vs[i] EXCEPT !.price = price, !.compare_at = compare_at]]

\* Shopify.variants_bulk_update_prices: what it leaves and whether it raises.
\* userErrors of the mutation are logged, nothing else.
variants_bulk_update_prices(P, gid, price, compare_at, f) ==
    LET get == <<Call("variants_get", FALSE, gid, 0, "", f.kind # "get")>>
        upd == <<Call("prices_update", TRUE, gid, 0, "", f.kind \notin {"update", "user_errors"})>>
    IN IF f.kind = "get" THEN [products |-> P, calls |-> get, raised |-> TRUE]
       ELSE IF P[gid].variants = <<>> THEN [products |-> P, calls |-> get, raised |-> FALSE]
       ELSE IF f.kind = "update" THEN [products |-> P, calls |-> get \o upd, raised |-> TRUE]
       ELSE IF f.kind = "user_errors"
         THEN [products |-> P, calls |-> get \o upd, raised |-> FALSE]
       ELSE [products |-> [P EXCEPT ![gid].variants = RemoteSetPrices(@, price, compare_at)],
             calls |-> get \o upd, raised |-> FALSE]

\* 9. the prices of the first row on every variant; not inside a try
UpdatePrices ==
    /\ pc = "prices"
    /\ \E f \in FaultsHere({F("get", 0), F("update", 0), F("user_errors", 0)}) :
          LET r == variants_bulk_update_prices(products, loc.outlet_gid,
                                               loc.prezzo_scontato, loc.prezzo_pieno, f)
          IN /\ Note(f, r.calls)
             /\ products' = r.products
             /\ IF r.raised THEN Raise(<<"GraphQL", "failed", "after", "retries">>)
                ELSE Goto("promo")
    /\ UNCHANGED <<inputVars, next_id, remote_locs, newest_first, mainVars, obsVars, loc, otherVars>>

(***************************************************************************)
(* 10. inventory                                                           *)
(***************************************************************************)
\* an inventory_set that logs a failed request and goes on
inventory_set_quiet(v, pid, i, l, qty, fails) ==
    IF fails \/ l \notin DOMAIN v.levels
      THEN [v |-> v, calls |-> <<SetCall(pid, i, l, qty, FALSE)>>, raised |-> FALSE]
      ELSE [v |-> [v EXCEPT !.levels[l] = qty],
            calls |-> <<SetCall(pid, i, l, qty, TRUE)>>, raised |-> FALSE]

\* Shopify.inventory_set on one variant: the shop answers 422 for a level
\* that is not connected, and the code then connects and sets again.
inventory_set(v, pid, i, l, qty, fails) ==
    IF fails
      THEN [v |-> v, calls |-> <<SetCall(pid, i, l, qty, FALSE)>>, raised |-> TRUE]
    ELSE IF l \notin DOMAIN v.levels
      THEN [v |-> [v EXCEPT !.levels = (l :> qty) @@ @],
            calls |-> <<SetCall(pid, i, l, qty, FALSE),
                        Call("inv_connect", TRUE, pid, i, l, TRUE),
                        SetCall(pid, i, l, qty, TRUE)>>,
            raised |-> FALSE]
    ELSE [v |-> [v EXCEPT !.levels[l] = qty],
          calls |-> <<SetCall(pid, i, l, qty, TRUE)>>, raised |-> FALSE]

\* a choice of the variant that falls back on the first variant of the SKU
\* when none has the row's size
TargetOrFirst(vs, sku, taglia) ==
    LET sized == {i \in 1..Len(vs) : vs[i].sku = sku /\ vs[i].size = taglia}
        any == {i \in 1..Len(vs) : vs[i].sku = sku}
    IN IF sized # {} THEN SetMin(sized) ELSE IF any # {} THEN SetMin(any) ELSE 0

\* The variant a row's quantity goes to (0: none): the first variant with the
\* group's SKU and, if the row names a size, that size.
TargetVariant(vs, sku, taglia) ==
    LET hits == {i \in 1..Len(vs) : vs[i].sku = sku /\ (taglia = "" \/ vs[i].size = taglia)}
    IN IF hits = {} THEN 0 ELSE SetMin(hits)

RECURSIVE RowsLoop(_, _, _, _, _, _, _, _)
RowsLoop(vs, cs, rows, j, pid, l, sku, f) ==
    IF j > Len(rows) THEN [vs |-> vs, calls |-> cs, raised |-> FALSE]
    ELSE LET t == TargetVariant(vs, sku, rows[j].taglia)
         IN IF t = 0 THEN RowsLoop(vs, cs, rows, j + 1, pid, l, sku, f)
            ELSE LET r == inventory_set(vs[t], pid, t, l, rows[j].qta, f = F("row", j))
                 IN IF r.raised
                      THEN [vs |-> vs, calls |-> cs \o r.calls, raised |-> TRUE]
                      ELSE RowsLoop([vs EXCEPT ![t] = r.v], cs \o r.calls, rows, j + 1,
                                    pid, l, sku, f)

\* a promo block that writes the rows' quantities without connecting and
\* zeroing the variants first
PromoBlockRowsOnly(vs, pid, l, rows, sku, f) ==
    LET get == <<Call("variants_get", FALSE, pid, 0, "", f.kind # "variants")>>
    IN IF f.kind = "variants" THEN [vs |-> vs, calls |-> get, raised |-> TRUE]
       ELSE RowsLoop(vs, get, rows, 1, pid, l, sku, f)

\* The promo block once the location is resolved: connect every variant
\* (failures swallowed), set every variant to 0, then the rows' quantities.
PromoBlock(vs, pid, l, rows, sku, f) ==
    LET n == Len(vs)
        get == <<Call("variants_get", FALSE, pid, 0, "", f.kind # "variants")>>
        c1 == [i \in 1..n |-> Call("inv_connect", TRUE, pid, i, l,
                                   f # F("connect", i) /\ l \notin DOMAIN vs[i].levels)]
        vs1 == [i \in 1..n |-> IF f = F("connect", i) THEN vs[i]
                               ELSE [vs[i] EXCEPT !.levels = RemoteConnect(@, l)]]
        stop == IF f.kind = "set0" THEN f.k ELSE n + 1
        z == [i \in 1..n |-> inventory_set(vs1[i], pid, i, l, 0, f = F("set0", i))]
        vs2 == [i \in 1..n |-> IF i < stop THEN z[i].v ELSE vs1[i]]
        c2 == Flatten([i \in 1..Min(stop, n) |-> z[i].calls])
    IN IF f.kind = "variants" THEN [vs |-> vs, calls |-> get, raised |-> TRUE]
       ELSE IF stop <= n THEN [vs |-> vs2, calls |-> get \o c1 \o c2, raised |-> TRUE]
       ELSE RowsLoop(vs2, get \o c1 \o c2, rows, 1, pid, l, sku, f)

\* a Magazzino block that gives up at the first variant it fails for
WarehouseBlockStops(vs, pid, l, f) ==
    LET n == IF f.kind \in {"wset", "wdel"} THEN f.k ELSE Len(vs)
        get == <<Call("variants_get", FALSE, pid, 0, "", f.kind # "variants")>>
        s == [i \in 1..n |-> inventory_set(vs[i], pid, i, l, 0, f = F("wset", i))]
        del == [i \in 1..n |-> Call("inv_delete", TRUE, pid, i, l, f # F("wdel", i))]
        out == [i \in 1..Len(vs) |->
                   IF i > n THEN vs[i]
                   ELSE IF s[i].raised THEN vs[i]
                   ELSE IF f = F("wdel", i) THEN s[i].v
                   ELSE [s[i].v EXCEPT !.levels = RemoteDeleteLevel(@, l)]]
        cs == Flatten([i \in 1..n |-> IF s[i].raised THEN s[i].calls
                                      ELSE Append(s[i].calls, del[i])])
    IN IF f.kind = "variants" THEN [vs |-> vs, calls |-> get, raised |-> TRUE]
       ELSE [vs |-> out, calls |-> get \o cs, raised |-> FALSE]

\* The Magazzino block once the location is resolved: per variant, set to 0
\* and delete the level, inside a try/except of its own.
WarehouseBlock(vs, pid, l, f) ==
    LET n == Len(vs)
        get == <<Call("variants_get", FALSE, pid, 0, "", f.kind # "variants")>>
        s == [i \in 1..n |-> inventory_set(vs[i], pid, i, l, 0, f = F("wset", i))]
        del == [i \in 1..n |-> Call("inv_delete", TRUE, pid, i, l, f # F("wdel", i))]
        out == [i \in 1..n |->
                   IF s[i].raised THEN vs[i]
                   ELSE IF f = F("wdel", i) THEN s[i].v
                   ELSE [s[i].v EXCEPT !.levels = RemoteDeleteLevel(@, l)]]
        cs == Flatten([i \in 1..n |-> IF s[i].raised THEN s[i].calls
                                      ELSE Append(s[i].calls, del[i])])
    IN IF f.kind = "variants" THEN [vs |-> vs, calls |-> get, raised |-> TRUE]
       ELSE [vs |-> out, calls |-> get \o cs, raised |-> FALSE]

\* a lookup that fetches the locations every time
LocationsCallAlways == <<Call("locations_get", FALSE, 0, 0, "", TRUE)>>

\* Shopify.get_location_by_name: the first lookup of an instance fetches the
\* locations, later ones read the cache.
LocationsCall == IF IsNone(location_cache)
                   THEN <<Call("locations_get", FALSE, 0, 0, "", TRUE)>> ELSE <<>>
LocationsFault == IF IsNone(location_cache) THEN {F("locations", 0)} ELSE {}

PromoFaults(vs, rows, sku) ==
    {F("variants", 0)}
      \cup {F("connect", k) : k \in 1..Len(vs)}
      \cup {F("set0", k) : k \in 1..Len(vs)}
      \cup {F("row", j) : j \in {x \in 1..Len(rows) : TargetVariant(vs, sku, rows[x].taglia) # 0}}

PromoInventory ==
    /\ pc = "promo"
    /\ IF ~Truthy(cfg.promo_name)
         THEN /\ Goto("warehouse")
              /\ UNCHANGED <<products, location_cache, calls, ghist, faults>>
         ELSE LET vs == products[loc.outlet_gid].variants
                  resolved == cfg.promo_name.val \in remote_locs
              IN \E f \in FaultsHere(LocationsFault \cup
                            (IF resolved THEN PromoFaults(vs, loc.rows, loc.sku) ELSE {})) :
                   IF f.kind = "locations"
                     THEN /\ Note(f, <<Call("locations_get", FALSE, 0, 0, "", FALSE)>>)
                          /\ Raise(<<"GET", "/locations.json", "->", "503">>)
                          /\ UNCHANGED <<products, location_cache>>
                   ELSE IF ~resolved
                     THEN /\ Note(f, LocationsCall)
                          /\ location_cache' = Some(remote_locs)
                          /\ Goto("warehouse") /\ UNCHANGED products
                   ELSE LET r == PromoBlock(vs, loc.outlet_gid, cfg.promo_name.val,
                                            loc.rows, loc.sku, f)
                        IN /\ Note(f, LocationsCall \o r.calls)
                           /\ location_cache' = Some(remote_locs)
                           /\ products' = [products EXCEPT ![loc.outlet_gid].variants = r.vs]
                           /\ IF r.raised THEN Raise(<<"POST", "/inventory_levels/set.json">>)
                              ELSE Goto("warehouse")
    /\ UNCHANGED <<inputVars, next_id, remote_locs, newest_first, run, groups, gi, stats, exit_code,
                   obsVars, loc, otherVars>>

WarehouseInventory ==
    /\ pc = "warehouse"
    /\ IF ~Truthy(cfg.mag_name)
         THEN /\ Goto("writeback")
              /\ UNCHANGED <<products, location_cache, calls, ghist, faults>>
         ELSE LET vs == products[loc.outlet_gid].variants
                  resolved == cfg.mag_name.val \in remote_locs
              IN \E f \in FaultsHere(LocationsFault \cup
                            (IF resolved
                               THEN {F("variants", 0)}
                                      \cup {F("wset", k) : k \in 1..Len(vs)}
                                      \cup {F("wdel", k) : k \in 1..Len(vs)}
                               ELSE {})) :
                   IF f.kind = "locations"
                     THEN /\ Note(f, <<Call("locations_get", FALSE, 0, 0, "", FALSE)>>)
                          /\ Raise(<<"GET", "/locations.json", "->", "503">>)
                          /\ UNCHANGED <<products, location_cache>>
                   ELSE IF ~resolved
                     THEN /\ Note(f, LocationsCall)
                          /\ location_cache' = Some(remote_locs)
                          /\ Goto("writeback") /\ UNCHANGED products
                   ELSE LET r == WarehouseBlock(vs, loc.outlet_gid, cfg.mag_name.val, f)
                        IN /\ Note(f, LocationsCall \o r.calls)
                           /\ location_cache' = Some(remote_locs)
                           /\ products' = [products EXCEPT ![loc.outlet_gid].variants = r.vs]
                           /\ IF r.raised
                                THEN Raise(<<"GraphQL", "failed", "after", "retries">>)
                                ELSE Goto("writeback")
    /\ UNCHANGED <<inputVars, next_id, remote_locs, newest_first, run, groups, gi, stats, exit_code,
                   obsVars, loc, otherVars>>

\* a write-back that serves the first row of the group only
WriteBackFirstRow(rows, gid, has_col, f) ==
    [j \in 1..Min(1, Len(rows)) |->
        Call("write_back", has_col, gid, rows[j].row_index, "", has_col /\ f # F("wb", j))]

\* a write-back that gives up at the first row it fails for
WriteBackUntilFailure(rows, gid, has_col, f) ==
    [j \in 1..(IF f.kind = "wb" THEN f.k ELSE Len(rows)) |->
        Call("write_back", has_col, gid, rows[j].row_index, "", has_col /\ f # F("wb", j))]

\* The loop over the rows of the group: gs_write_product_id is called once for
\* every row; it updates the cell (a remote call) when the sheet has a
\* Product_Id column and answers False when it has none or the update fails.
WriteBackCalls(rows, gid, has_col, f) ==
    [j \in 1..Len(rows) |->
        Call("write_back", has_col, gid, rows[j].row_index, "", has_col /\ f # F("wb", j))]

\* 11. gs_write_product_id for every row of the group, each in a try/except;
\* without a Product_Id column nothing is written.  Then return "SUCCESS".
WriteBack ==
    /\ pc = "writeback"
    /\ LET rows == loc.rows
       IN \E f \in FaultsHere(IF cfg.pid_col THEN {F("wb", j) : j \in 1..Len(rows)} ELSE {}) :
            LET wb == WriteBackCalls(rows, loc.outlet_gid, cfg.pid_col, f)
                written == {wb[j].vi : j \in {x \in 1..Len(wb) : wb[x].ok}}
            IN /\ Note(f, wb)
               /\ sheet' = [i \in 1..Len(sheet) |->
                               IF sheet[i].row_index \in written
                                 THEN [sheet[i] EXCEPT !.product_id = Gid(loc.outlet_gid)]
                                 ELSE sheet[i]]
    /\ Return("SUCCESS")
    /\ UNCHANGED <<cfg, shopVars, mainVars, obsVars, loc, otherVars>>

(***************************************************************************)
(* fix_prices.py                                                           *)
(***************************************************************************)
\* a script that never runs dry
DryRunOff(c) == c.apply /\ ~c.apply

\* dry_run = not args.apply or args.dry_run
DryRun(c) == ~c.apply \/ c.dry_run_flag

\* fix_prices_for_sku: its result, the shop it leaves, the calls it made.
\* A product id that names no product makes get_product_variants raise on
\* data["node"]["variants"], which the lookup's except turns into "ERROR".
fix_prices_for_sku(P, sku, rows, dry_run, f) ==
    LET pair == FixPricePair(rows[1].prezzo_pieno, rows[1].prezzo_scontato)
        q == rows[1].product_id
        is_gid == ~IsNone(q) /\ q.val.kind = "gid"
        lookup == <<Call(IF is_gid THEN "variants_get" ELSE "find_by_handle", FALSE, 0, 0, "",
                         f.kind # "lookup")>>
        found == IF is_gid THEN (IF q.val.id \in DOMAIN P THEN Some(q.val.id) ELSE NoneV)
                 ELSE find_product_by_handle(P, q.val.handle)
        fetch == <<Call("variants_get", FALSE, 0, 0, "", f.kind # "variants")>>
        Result(res, cs) == [result |-> res, products |-> P, calls |-> cs]
    IN IF IsNone(q) THEN Result("SKIP_NO_PRODUCT_ID", <<>>)
       ELSE IF f.kind = "lookup" THEN Result("ERROR", lookup)
       ELSE IF is_gid /\ IsNone(found) THEN Result("ERROR", lookup)
       ELSE IF IsNone(found) THEN Result("SKIP_NOT_FOUND", lookup)
       ELSE IF is_gid /\ P[found.val].variants = <<>> THEN Result("SKIP_NOT_FOUND", lookup)
       ELSE IF ~is_gid /\ P[found.val].status # "ACTIVE" THEN Result("SKIP_DRAFT", lookup)
       ELSE IF f.kind = "variants" THEN Result("ERROR", lookup \o fetch)
       ELSE IF P[found.val].variants = <<>> THEN Result("SKIP_NOT_FOUND", lookup \o fetch)
       ELSE IF dry_run THEN Result("SUCCESS_DRY", lookup \o fetch)
       ELSE LET u == variants_bulk_update_prices(P, found.val, pair.price, pair.compare_at,
                         IF f.kind \in {"update", "user_errors"} THEN f ELSE NoFault)
            IN [result |-> IF u.raised THEN "ERROR" ELSE "SUCCESS",
                products |-> u.products, calls |-> lookup \o fetch \o u.calls]

FixTally(st, outcome) ==
    IF outcome = "SUCCESS" THEN [st EXCEPT !.success = @ + 1]
    ELSE IF outcome = "SUCCESS_DRY" THEN [st EXCEPT !.success_dry = @ + 1]
    ELSE IF outcome = "SKIP_NOT_FOUND" THEN [st EXCEPT !.skip_not_found = @ + 1]
    ELSE IF outcome = "SKIP_DRAFT" THEN [st EXCEPT !.skip_draft = @ + 1]
    ELSE IF outcome = "SKIP_NO_PRODUCT_ID" THEN [st EXCEPT !.skip_no_product_id = @ + 1]
    ELSE IF outcome = "ERROR" THEN [st EXCEPT !.errors = @ + 1]
    ELSE st

\* an exit status that ignores the error count
FixExitCodeOne(st) == IF st.errors >= 0 THEN 1 ELSE 0

\* sys.exit(0 if stats["errors"] == 0 else 1)
FixExitCode(st) == IF st.errors = 0 THEN 0 ELSE 1

\* fix_prices.main(): the sheet is read, filtered and grouped
FixReadRows ==
    /\ pc = "start" /\ cfg.program = "fix_prices"
    /\ IF ~cfg.sheet_ok THEN Exit(1) /\ UNCHANGED groups
       ELSE IF Selected(sheet) = <<>> THEN Exit(0) /\ UNCHANGED groups
       ELSE /\ groups' = GroupBySku(Selected(sheet))
            /\ pc' = "fp_init" /\ UNCHANGED exit_code
    /\ UNCHANGED <<inputVars, shopVars, run, gi, stats, location_cache, obsVars,
                   loc, result, calls, ghist, faults, otherVars>>

\* fix_prices.main(): shop = Shopify() inside try/except
FixInitShop ==
    /\ pc = "fp_init"
    /\ IF ~cfg.env_ok THEN Exit(1) /\ UNCHANGED <<gi, stats, location_cache>>
       ELSE /\ gi' = 1 /\ stats' = Stats0 /\ location_cache' = NoneV
            /\ pc' = "fp_group" /\ UNCHANGED exit_code
    /\ UNCHANGED <<inputVars, shopVars, run, groups, obsVars,
                   loc, result, calls, ghist, faults, otherVars>>

\* fix_prices.main(): one turn of the loop over the groups
FixGroup ==
    /\ pc = "fp_group" /\ gi <= Len(groups)
    /\ \E f \in FaultsHere({F("lookup", 0), F("variants", 0), F("update", 0),
                            F("user_errors", 0)}) :
          LET r == fix_prices_for_sku(products, groups[gi].sku, groups[gi].rows,
                                      DryRun(cfg), f)
          IN /\ products' = r.products
             /\ calls' = r.calls
             /\ result' = Returned(r.result)
             /\ stats' = FixTally(stats, r.result)
             /\ outcomes' = Append(outcomes,
                    [sku |-> groups[gi].sku, outcome |-> r.result, raised |-> FALSE,
                     faulted |-> f # NoFault, mutating |-> Len(Mutating(r.calls)),
                     failed |-> {r.calls[k].op :
                                    k \in {x \in 1..Len(r.calls) : ~r.calls[x].ok}}])
             /\ faults' = IF f = NoFault THEN faults ELSE faults + 1
             /\ ghist' = [GHist0 EXCEPT !.faulted = f # NoFault]
    /\ gi' = gi + 1
    /\ loc' = [Loc0 EXCEPT !.sku = groups[gi].sku, !.rows = groups[gi].rows]
    /\ UNCHANGED <<inputVars, next_id, remote_locs, newest_first, run, groups, exit_code, location_cache,
                   prev_outcomes, products0, pc, otherVars>>

\* fix_prices.main(): the report and the exit status
FixReport ==
    /\ pc = "fp_group" /\ gi > Len(groups)
    /\ Exit(FixExitCode(stats))
    /\ UNCHANGED <<inputVars, shopVars, run, groups, gi, stats, location_cache, obsVars,
                   loc, result, calls, ghist, faults, otherVars>>

Next ==
    \/ MainPy
    \/ SyncMain
    \/ SyncReadRows
    \/ SyncInitShop
    \/ BeginGroup
    \/ FindSource
    \/ FindOutlet
    \/ DeleteDraft
    \/ Duplicate
    \/ Finalize
    \/ CopyImages
    \/ CopyMetafields
    \/ DeleteCollects
    \/ UpdatePrices
    \/ PromoInventory
    \/ WarehouseInventory
    \/ WriteBack
    \/ RecordResult
    \/ Report
    \/ FixReadRows
    \/ FixInitShop
    \/ FixGroup
    \/ FixReport
    \/ NewRun

Spec == Init /\ [][Next]_vars

(***************************************************************************)
(* One call through a rate-limited client                                  *)
(***************************************************************************)
InitGateway ==
    /\ fn = "none" /\ arg = NoneV /\ ret = NoneV
    /\ gw_kind \in GwKinds
    /\ max_retries \in 0..MaxRetriesBound
    /\ attempt = 0 /\ resps = <<>> /\ backoff = 1 /\ slept = <<>> /\ gw_result = NoneV
    /\ min_interval \in MinIntervals
    /\ since \in IdleTimes
    /\ gaps = <<>>
    /\ WfIdle /\ ResetIdle

SyncRest == \E r \in Responses : SyncRestStep(r) /\ UNCHANGED <<pureVars, wfVars, resetVars>>
SyncRestEnd == SyncRestExhausted /\ UNCHANGED <<pureVars, wfVars, resetVars>>
SyncGraphql == \E r \in Responses : SyncGraphqlStep(r) /\ UNCHANGED <<pureVars, wfVars, resetVars>>
SyncGraphqlEnd == SyncGraphqlExhausted /\ UNCHANGED <<pureVars, wfVars, resetVars>>
ClientRest == \E r \in Responses : ClientRestStep(r) /\ UNCHANGED <<pureVars, wfVars, resetVars>>
ClientRestEnd == ClientRestExhausted /\ UNCHANGED <<pureVars, wfVars, resetVars>>
ClientGraphql == \E r \in Responses : ClientGraphqlStep(r) /\ UNCHANGED <<pureVars, wfVars, resetVars>>
ClientGraphqlEnd == ClientGraphqlExhausted /\ UNCHANGED <<pureVars, wfVars, resetVars>>

NextGateway ==
    \/ SyncRest
    \/ SyncRestEnd
    \/ SyncGraphql
    \/ SyncGraphqlEnd
    \/ ClientRest
    \/ ClientRestEnd
    \/ ClientGraphql
    \/ ClientGraphqlEnd

SpecGateway == InitGateway /\ [][NextGateway]_vars

(***************************************************************************)
(* The price rules on bounded inputs                                       *)
(***************************************************************************)
InitPrices ==
    /\ fn \in {"sync_price", "fix_price"}
    /\ arg \in [full : RawPrices, sale : RawPrices]
    /\ ret = NoneV
    /\ GwIdle /\ WfIdle /\ ResetIdle

SyncPrice == ApplySyncPrice /\ UNCHANGED <<gwVars, wfVars, resetVars>>
FixPrice == ApplyFixPrice /\ UNCHANGED <<gwVars, wfVars, resetVars>>

NextPrice ==
    \/ SyncPrice
    \/ FixPrice

SpecPrice == InitPrices /\ [][NextPrice]_vars

(***************************************************************************)
(* reset_product_variants: delete and recreate the variants of one product *)
(*                                                                         *)
(* A variant is its id (the inventory item carries the same number), its   *)
(* title as a sequence of parts, its SKU and its inventory levels, a       *)
(* function from the locations it is stocked at to quantities.             *)
(***************************************************************************)
ShopVariant(id, title, levels) ==
    [id |-> id, title |-> title, sku |-> "A", levels |-> levels]

\* skip_filter and skip_filter.lower() in v_title.lower()
SkipMatch(filter, title) ==
    /\ filter # ""
    /\ \E i \in 1..Len(title) : Lower(title[i]) = Lower(filter)

\* _build_variant_input: the data the recreation is given; the variants the
\* client fetches carry id, sku, title and inventoryItem, no selectedOptions
build_variant_input(v_data) == [sku |-> v_data.sku]

\* DELETE of one variant, carried out by the shop
variant_delete(vs, id) == SelectSeq(vs, LAMBDA v : v.id # id)

\* POST of one variant, carried out by the shop: the new variant comes last,
\* is titled after its option values and is stocked at the shop's own location
variant_create(vs, input, id) ==
    Append(vs, [id |-> id, title |-> <<"Default Title">>, sku |-> input.sku,
                levels |-> (MAGAZZINO :> 0)])

ResetCall(op, id, ok) == [op |-> op, id |-> id, ok |-> ok]

VariantTitles == {<<"40">>, <<"41">>, <<"PERSO">>}
SkipFilters == {"perso", "Perso", ""}
StartLevels == {(MAGAZZINO :> 1), (PROMO :> 2)}

\* the variant lists a product can start with: up to three variants with
\* titles of their own
VariantLists ==
    {<<>>}
      \cup {<<ShopVariant(1, t, l)>> : t \in VariantTitles, l \in StartLevels}
      \cup {<<ShopVariant(1, t, l), ShopVariant(2, u, l)>> :
               t \in VariantTitles, u \in VariantTitles, l \in StartLevels}
      \cup {<<ShopVariant(1, t, l), ShopVariant(2, u, l), ShopVariant(3, w, l)>> :
               t \in VariantTitles, u \in VariantTitles, w \in VariantTitles,
               l \in StartLevels}

DistinctTitles(vs) == \A i, j \in 1..Len(vs) : vs[i].title = vs[j].title => i = j

InitReset ==
    /\ fn = "none" /\ arg = NoneV /\ ret = NoneV
    /\ GwIdle /\ WfIdle
    /\ shop_variants \in {vs \in VariantLists : DistinctTitles(vs)}
    /\ next_vid = Len(shop_variants) + 1
    /\ skip_filter \in SkipFilters
    /\ rpc = "fetch"
    /\ variant_backup = <<>> /\ inventory_backup = <<>> /\ variant_mapping = <<>>
    /\ vidx = 0 /\ reset_ret = NoneV /\ reset_calls = <<>>

ResetReturn(v) == rpc' = "done" /\ reset_ret' = Some(v)

\* step 1: fetch the variants
ResetFetch ==
    /\ rpc = "fetch"
    /\ \E ok \in BOOLEAN :
          /\ reset_calls' = Append(reset_calls, ResetCall("get_product_variants", 0, ok))
          /\ IF ~ok \/ shop_variants = <<>> THEN
                ResetReturn(FALSE) /\ UNCHANGED variant_backup
             ELSE IF Len(shop_variants) = 1 THEN
                ResetReturn(TRUE) /\ UNCHANGED variant_backup
             ELSE
                /\ rpc' = "backup" /\ variant_backup' = shop_variants
                /\ UNCHANGED reset_ret
    /\ UNCHANGED <<shop_variants, next_vid, skip_filter, inventory_backup,
                   variant_mapping, vidx, pureVars, gwVars, wfVars>>

\* step 2: back up the inventory levels; a fetch that fails leaves no entry
ResetBackup ==
    /\ rpc = "backup"
    /\ \E got \in SUBSET {variant_backup[i].id : i \in 1..Len(variant_backup)} :
          /\ inventory_backup' =
                [id \in got |->
                    (CHOOSE v \in Range(variant_backup) : v.id = id).levels]
          /\ reset_calls' = reset_calls \o
                [i \in 1..Len(variant_backup) |->
                    ResetCall("inventory_levels_get", variant_backup[i].id,
                              variant_backup[i].id \in got)]
    /\ rpc' = "delete_rest" /\ vidx' = 2
    /\ UNCHANGED <<shop_variants, next_vid, skip_filter, variant_backup,
                   variant_mapping, reset_ret, pureVars, gwVars, wfVars>>

\* step 3: delete the variants from the second on
ResetDeleteRest ==
    /\ rpc = "delete_rest"
    /\ IF vidx > Len(variant_backup) THEN
          /\ rpc' = "create_rest" /\ vidx' = 2
          /\ UNCHANGED <<shop_variants, reset_calls>>
       ELSE
          /\ vidx' = vidx + 1 /\ UNCHANGED rpc
          /\ IF SkipMatch(skip_filter, variant_backup[vidx].title) THEN
                UNCHANGED <<shop_variants, reset_calls>>
             ELSE \E ok \in BOOLEAN :
                /\ shop_variants' =
                      IF ok THEN variant_delete(shop_variants, variant_backup[vidx].id)
                      ELSE shop_variants
                /\ reset_calls' = Append(reset_calls,
                      ResetCall("variant_delete", variant_backup[vidx].id, ok))
    /\ UNCHANGED <<next_vid, skip_filter, variant_backup, inventory_backup,
                   variant_mapping, reset_ret, pureVars, gwVars, wfVars>>

\* step 4: recreate the variants from the second on
ResetCreateRest ==
    /\ rpc = "create_rest"
    /\ IF vidx > Len(variant_backup) THEN
          /\ rpc' = "delete_first"
          /\ UNCHANGED <<shop_variants, next_vid, variant_mapping, vidx, reset_calls>>
       ELSE
          /\ vidx' = vidx + 1 /\ UNCHANGED rpc
          /\ IF SkipMatch(skip_filter, variant_backup[vidx].title) THEN
                UNCHANGED <<shop_variants, next_vid, variant_mapping, reset_calls>>
             ELSE \E ok \in BOOLEAN :
                /\ reset_calls' = Append(reset_calls,
                      ResetCall("variant_create", variant_backup[vidx].id, ok))
                /\ IF ok THEN
                      /\ shop_variants' = variant_create(shop_variants,
                            build_variant_input(variant_backup[vidx]), next_vid)
                      /\ variant_mapping' =
                            Append(variant_mapping, <<variant_backup[vidx].id, next_vid>>)
                      /\ next_vid' = next_vid + 1
                   ELSE UNCHANGED <<shop_variants, next_vid, variant_mapping>>
    /\ UNCHANGED <<skip_filter, variant_backup, inventory_backup, reset_ret,
                   pureVars, gwVars, wfVars>>

\* step 5: delete the first variant
ResetDeleteFirst ==
    /\ rpc = "delete_first"
    /\ \E ok \in BOOLEAN :
          /\ shop_variants' =
                IF ok THEN variant_delete(shop_variants, variant_backup[1].id)
                ELSE shop_variants
          /\ reset_calls' = Append(reset_calls,
                ResetCall("variant_delete", variant_backup[1].id, ok))
    /\ rpc' = "create_first"
    /\ UNCHANGED <<next_vid, skip_filter, variant_backup, inventory_backup,
                   variant_mapping, vidx, reset_ret, pureVars, gwVars, wfVars>>

\* step 6: recreate the first variant
ResetCreateFirst ==
    /\ rpc = "create_first"
    /\ rpc' = "restore"
    /\ IF SkipMatch(skip_filter, variant_backup[1].title) THEN
          UNCHANGED <<shop_variants, next_vid, variant_mapping, reset_calls>>
       ELSE \E ok \in BOOLEAN :
          /\ reset_calls' = Append(reset_calls,
                ResetCall("variant_create", variant_backup[1].id, ok))
          /\ IF ok THEN
                /\ shop_variants' = variant_create(shop_variants,
                      build_variant_input(variant_backup[1]), next_vid)
                /\ variant_mapping' =
                      Append(variant_mapping, <<variant_backup[1].id, next_vid>>)
                /\ next_vid' = next_vid + 1
             ELSE UNCHANGED <<shop_variants, next_vid, variant_mapping>>
    /\ UNCHANGED <<skip_filter, variant_backup, inventory_backup, vidx, reset_ret,
                   pureVars, gwVars, wfVars>>

\* the recreated variants whose levels were backed up, old id and new id
Restorable ==
    {m \in Range(variant_mapping) :
        m[1] \in DOMAIN inventory_backup /\ DOMAIN inventory_backup[m[1]] # {}}

\* the levels of the variants after the given changes of whole level maps
WithLevels(vs, new) ==
    [i \in 1..Len(vs) |->
        IF vs[i].id \in DOMAIN new THEN [vs[i] EXCEPT !.levels = new[vs[i].id]]
        ELSE vs[i]]

\* step 7: set the levels of the backup on the recreated variants; every call
\* stands alone
ResetRestore ==
    /\ rpc = "restore"
    /\ \E done \in SUBSET Restorable :
          /\ shop_variants' = WithLevels(shop_variants,
                [id \in {m[2] : m \in done} |->
                    LET m == CHOOSE x \in done : x[2] = id
                        old == inventory_backup[m[1]]
                        cur == (CHOOSE v \in Range(shop_variants) : v.id = id).levels
                    IN  [l \in DOMAIN cur \cup DOMAIN old |->
                            IF l \in DOMAIN old THEN old[l] ELSE cur[l]]])
          /\ reset_calls' = reset_calls \o
                [i \in 1..Len(variant_mapping) |->
                    ResetCall("inventory_set", variant_mapping[i][2],
                              variant_mapping[i] \in done)]
    /\ rpc' = "cleanup"
    /\ UNCHANGED <<next_vid, skip_filter, variant_backup, inventory_backup,
                   variant_mapping, vidx, reset_ret, pureVars, gwVars, wfVars>>

\* step 8: drop the levels at locations the original was not stocked at
ResetCleanup ==
    /\ rpc = "cleanup"
    /\ \E done \in SUBSET Restorable :
          /\ shop_variants' = WithLevels(shop_variants,
                [id \in {m[2] : m \in done} |->
                    LET m == CHOOSE x \in done : x[2] = id
                        old == inventory_backup[m[1]]
                        cur == (CHOOSE v \in Range(shop_variants) : v.id = id).levels
                    IN  [l \in DOMAIN cur \cap DOMAIN old |-> cur[l]]])
          /\ reset_calls' = reset_calls \o
                [i \in 1..Len(variant_mapping) |->
                    ResetCall("inventory_delete", variant_mapping[i][2],
                              variant_mapping[i] \in done)]
    /\ ResetReturn(TRUE)
    /\ UNCHANGED <<next_vid, skip_filter, variant_backup, inventory_backup,
                   variant_mapping, vidx, pureVars, gwVars, wfVars>>

NextReset ==
    \/ ResetFetch
    \/ ResetBackup
    \/ ResetDeleteRest
    \/ ResetCreateRest
    \/ ResetDeleteFirst
    \/ ResetCreateFirst
    \/ ResetRestore
    \/ ResetCleanup

SpecReset == InitReset /\ [][NextReset]_vars

(***************************************************************************)
(* Properties                                                              *)
(***************************************************************************)
IsSync == cfg.program \in {"sync", "main"}
GroupDone == pc \in {"returned", "raised"}
Succeeded == result.tag = "Returned" /\ result.resp = "SUCCESS"
HasError == \E i \in 1..Len(outcomes) : outcomes[i].outcome = "ERROR"

\* the outcomes the previous run booked for a SKU
PrevOutcomesOf(sku) ==
    {prev_outcomes[i].outcome : i \in {x \in 1..Len(prev_outcomes) : prev_outcomes[x].sku = sku}}

\* C1: a group that ended in SUCCESS in the previous run ends, in a run the
\* remote side does not disturb, in SKIP_ALREADY_ACTIVE without one mutating
\* remote call or write-back.
C1_IdempotentSecondRun ==
    (GroupDone /\ IsSync /\ "SUCCESS" \in PrevOutcomesOf(loc.sku) /\ ~ghist.faulted)
      => /\ result.tag = "Returned" /\ result.resp = "SKIP_ALREADY_ACTIVE"
         /\ Mutating(calls) = <<>>

\* What process_sku_group comes to for a SKU on catalog P when no remote call
\* fails.
ExpectedOutcome(P, sku) ==
    LET source == find_product_by_sku_non_outlet(P, sku)
        existing == find_outlet_by_sku(P, sku)
        active == ~IsNone(existing) /\ P[existing.val].status = "ACTIVE"
        Q == IF IsNone(existing) THEN P ELSE RemoteDelete(P, existing.val)
    IN IF IsNone(source) THEN "SKIP_NO_SOURCE"
       ELSE IF active THEN "SKIP_ALREADY_ACTIVE"
       ELSE IF source.val \notin DOMAIN Q THEN "ERROR"
       ELSE IF HandleTaken(Q, OutletHandle(P[source.val].handle), 0) THEN "ERROR"
       ELSE "SUCCESS"

\* C2: a group whose processing raised is booked as ERROR, every group of the
\* run is booked, and a group no remote failure hit has the outcome it has on
\* the catalog of the run's start, whatever happened to the other groups.
C2_GroupIsolation ==
    IsSync =>
      /\ \A i \in 1..Len(outcomes) :
            /\ outcomes[i].raised => outcomes[i].outcome = "ERROR"
            /\ ~outcomes[i].faulted
                 => outcomes[i].outcome = ExpectedOutcome(products0, outcomes[i].sku)
      /\ (pc = "exit" /\ gi > 0) => Len(outcomes) = Len(groups)

C2_Witness ==
    /\ IsSync /\ pc = "exit" /\ Len(outcomes) = 3
    /\ outcomes[2].raised /\ outcomes[2].faulted /\ outcomes[2].outcome = "ERROR"
    /\ outcomes[1].outcome = "SUCCESS" /\ outcomes[3].outcome = "SUCCESS"

AllRateLimited == \A i \in 1..Len(resps) : IsRateLimit(resps[i], gw_kind)

\* C3: a call with max_retries = N that is answered with the rate-limit status
\* every time dispatches N requests, never more, and ends with an error.
C3_RetryBound ==
    (gw_kind \in GwKinds /\ max_retries >= 1 /\ AllRateLimited)
      => /\ Len(resps) <= max_retries
         /\ gw_result # NoneV => (Len(resps) = max_retries /\ gw_result.tag = "Raised")

\* the variants of the outlet that carry the SKU and size of the group's row
RowMatches ==
    LET vs == products[loc.outlet_gid].variants
    IN {i \in 1..Len(vs) : vs[i].sku = loc.sku /\ vs[i].size = loc.rows[1].taglia}

\* C4: after the inventory steps of a group of one row with quantity q > 0 and
\* a size that one variant has, that variant has q at the promo location,
\* every other variant has 0 there, and no variant has a level at the
\* warehouse location.
C4_InventoryZeroSum ==
    (pc = "writeback" /\ ~ghist.faulted /\ Len(loc.rows) = 1 /\ loc.rows[1].qta > 0
       /\ Cardinality(RowMatches) = 1)
      => LET vs == products[loc.outlet_gid].variants
         IN \A i \in 1..Len(vs) :
               /\ PROMO \in DOMAIN vs[i].levels
               /\ vs[i].levels[PROMO] = IF i \in RowMatches THEN loc.rows[1].qta ELSE 0
               /\ MAGAZZINO \notin DOMAIN vs[i].levels

\* the products of the run's start that hold the outlet handle, are Active
\* and have nothing to do with the group's SKU
UnrelatedHolders ==
    {u \in DOMAIN products0 :
        /\ products0[u].handle = loc.outlet_handle
        /\ products0[u].status = "ACTIVE"
        /\ products0[u].made_for = ""
        /\ ~HasSkuInFirst(products0[u], loc.sku, Len(products0[u].variants))}

\* C5: when an unrelated Active product holds the handle "x-outlet", the new
\* outlet ends Active with the handle "x-outlet-1", the group ends in
\* SUCCESS and the unrelated product is as it was.
C5_HandleConflict ==
    (GroupDone /\ ~ghist.faulted /\ loc.outlet_gid # 0 /\ UnrelatedHolders # {})
      => /\ Succeeded
         /\ products[loc.outlet_gid].handle = SuffixedHandle(loc.outlet_handle, 1)
         /\ products[loc.outlet_gid].status = "ACTIVE"
         /\ \A u \in UnrelatedHolders : u \in DOMAIN products /\ products[u] = products0[u]

AbsentOrZero(v) == ~Truthy(v) \/ v = ZeroPrice

\* C6: the applied pair is (full, full) when the sale price is absent or zero,
\* (sale, sale) when the full price is absent or zero, (sale, full) when both
\* are there, and neither field of it is ever null.
C6_PriceFallback ==
    (fn \in {"sync_price", "fix_price"} /\ ~IsNone(ret))
      => LET full == clean_price(arg.full)
             sale == clean_price(arg.sale)
         IN /\ Truthy(ret.val.price) /\ Truthy(ret.val.compare_at)
            /\ (AbsentOrZero(sale) /\ ~AbsentOrZero(full))
                 => ret.val = [price |-> full, compare_at |-> full]
            /\ (AbsentOrZero(full) /\ ~AbsentOrZero(sale))
                 => ret.val = [price |-> sale, compare_at |-> sale]
            /\ (~AbsentOrZero(full) /\ ~AbsentOrZero(sale))
                 => ret.val = [price |-> sale, compare_at |-> full]

TwiceSuffixed(s, tok) == Len(s) >= 3 /\ s[Len(s)] = tok /\ s[Len(s) - 1] = tok

\* C7: for every source the workflow finds, the outlet handle is the source's
\* handle with "-outlet" appended and the outlet title is the source's title
\* with " - Outlet" appended unless it ends with it already; neither ever
\* carries the suffix twice.
C7_OutletNames ==
    loc.source_gid # 0
      => /\ loc.outlet_handle = loc.source_handle \o <<"outlet">>
         /\ loc.outlet_title = IF EndsWithOutletTitle(loc.source_title)
                                 THEN loc.source_title
                                 ELSE loc.source_title \o <<"Outlet">>
         /\ ~TwiceSuffixed(loc.outlet_handle, "outlet")
         /\ ~TwiceSuffixed(loc.outlet_title, "Outlet")

C7_Witness ==
    /\ loc.source_gid # 0 /\ EndsWithOutletTitle(loc.source_title)
    /\ loc.outlet_title = loc.source_title
    /\ loc.outlet_handle = <<"a", "sale", "outlet">>

\* C8: a run started without --apply makes no mutating remote call and no
\* write-back, and leaves the shop as it found it.
C8_DryRunSafety ==
    ~cfg.apply
      => /\ Mutating(calls) = <<>>
         /\ \A i \in 1..Len(outcomes) : outcomes[i].mutating = 0
         /\ products = products0

C8_Witness ==
    /\ ~cfg.apply /\ cfg.program = "fix_prices" /\ pc = "exit"
    /\ \E i \in 1..Len(outcomes) : outcomes[i].outcome = "SUCCESS_DRY"

\* C9: the exit status is non-zero only if a group ended in ERROR.
C9_ExitCode ==
    (~IsNone(exit_code) /\ exit_code.val # 0) => HasError

\* C9, amended: the exit status is non-zero only if a group ended in ERROR or
\* the run was given up before its first group (RUN_MODE missing or invalid,
\* sheet unreadable, shop not configured); a run that went through its groups
\* without an ERROR exits with 0.
C9_ExitCodeAmended ==
    /\ (~IsNone(exit_code) /\ exit_code.val # 0) => (HasError \/ gi = 0)
    /\ (pc = "exit" /\ gi > 0 /\ ~HasError) => exit_code = Some(0)

C9_Witness ==
    /\ pc = "exit" /\ exit_code = Some(1) /\ gi > 0 /\ HasError

\* C10: no SKU has two Active outlets, and duplicate is never issued for a
\* group while an Active outlet of its SKU exists.
C10_AtMostOneActive ==
    faults = 0
      => /\ \A sku \in {"A", "B", "C"} : Cardinality(ActiveOutletsOf(products, sku)) <= 1
         /\ ~ghist.dup_while_active

(***************************************************************************)
(* The order of the steps of process_sku_group                             *)
(***************************************************************************)
\* the step a mutating call belongs to (0: the deletion of a draft, which
\* comes before the duplication)
StepOf(op) ==
    IF op = "duplicate" THEN "duplicate"
    ELSE IF op = "update_product" THEN "finalize"
    ELSE IF op \in {"image_delete", "image_post"} THEN "media"
    ELSE IF op = "metafields_set" THEN "metafields"
    ELSE IF op = "collect_delete" THEN "collects"
    ELSE IF op = "prices_update" THEN "prices"
    ELSE IF op \in {"inv_connect", "inv_set", "inv_delete"} THEN "inventory"
    ELSE IF op = "write_back" THEN "writeback"
    ELSE "before"

\* the position of a step in an order of the eight steps
Position(order, step) ==
    IF step \in Range(order) THEN SetMin({i \in 1..Len(order) : order[i] = step}) ELSE 0

InOrder(order, cs) ==
    \A i, j \in 1..Len(cs) :
        i < j => Position(order, StepOf(cs[i].op)) <= Position(order, StepOf(cs[j].op))

StatedOrder ==
    <<"duplicate", "finalize", "prices", "media", "metafields", "collects",
      "inventory", "writeback">>

CodeOrder ==
    <<"duplicate", "finalize", "media", "metafields", "collects", "prices",
      "inventory", "writeback">>

StepsOf(cs) == {StepOf(cs[i].op) : i \in 1..Len(cs)}

\* C11 (as stated): the mutating calls of a group that ends in SUCCESS come in
\* the order duplicate, finalize, prices, media, metafields, collects,
\* inventory, write-back.
C11_StepOrder ==
    (pc = "returned" /\ Succeeded) => InOrder(StatedOrder, Mutating(calls))

\* C11 (amended): the mutating calls of a group that ends in SUCCESS come in
\* the order duplicate, finalize, media, metafields, collects, prices,
\* inventory, write-back, and no call of a step follows a call of a later step.
C11_StepOrderAmended ==
    (pc = "returned" /\ Succeeded) =>
        /\ InOrder(CodeOrder, Mutating(calls))
        /\ {"duplicate", "finalize"} \subseteq StepsOf(Mutating(calls))

\* a group that ended in SUCCESS after calls of all eight steps
C11_Witness ==
    /\ pc = "returned" /\ Succeeded
    /\ Range(CodeOrder) \subseteq StepsOf(Mutating(calls))

(***************************************************************************)
(* The Magazzino block                                                     *)
(***************************************************************************)
\* the calls of the Magazzino block: those after the last read of the
\* outlet's variants, once the block has run
WarehouseCalls ==
    IF pc \in {"writeback", "returned"} /\ Truthy(cfg.mag_name)
         /\ \E k \in 1..Len(calls) : calls[k].op = "inv_delete"
      THEN LET last == CHOOSE k \in 1..Len(calls) :
                          /\ calls[k].op = "variants_get"
                          /\ \A m \in (k + 1)..Len(calls) : calls[m].op # "variants_get"
           IN SelectSeq(SubSeq(calls, last + 1, Len(calls)), LAMBDA c : c.op # "write_back")
      ELSE <<>>

\* C12: a delete of a warehouse level is issued only right after a successful
\* set of that same level to 0, so never for a level that holds stock; no
\* other step issues such a delete.
C12_ZeroThenDelete ==
    \A k \in 1..Len(calls) :
        calls[k].op = "inv_delete" =>
            /\ k > 1
            /\ calls[k - 1].op = "inv_set" /\ calls[k - 1].ok /\ calls[k - 1].qty = 0
            /\ calls[k - 1].pid = calls[k].pid /\ calls[k - 1].vi = calls[k].vi
            /\ calls[k - 1].l = calls[k].l
            /\ Truthy(cfg.mag_name) /\ calls[k].l = cfg.mag_name.val

\* the Magazzino block has run on an outlet with two variants: the set of the
\* first variant failed and no delete followed, the second level was set to 0
\* and deleted
C12_Witness ==
    /\ pc = "writeback"
    /\ Len(WarehouseCalls) = 3
    /\ WarehouseCalls[1].op = "inv_set" /\ ~WarehouseCalls[1].ok /\ WarehouseCalls[1].vi = 1
    /\ WarehouseCalls[2].op = "inv_set" /\ WarehouseCalls[2].ok /\ WarehouseCalls[2].vi = 2
    /\ WarehouseCalls[3].op = "inv_delete" /\ WarehouseCalls[3].vi = 2
    /\ MAGAZZINO \in DOMAIN products[loc.outlet_gid].variants[1].levels
    /\ MAGAZZINO \notin DOMAIN products[loc.outlet_gid].variants[2].levels

(***************************************************************************)
(* The lookups at the start of a group                                     *)
(***************************************************************************)
\* no product of the shop other than an outlet carries the SKU
NoSourceFor(P, sku) ==
    \A id \in DOMAIN P :
        ~EndsWithOutletHandle(P[id].handle) =>
            \A i \in 1..Len(P[id].variants) : P[id].variants[i].sku # sku

WriteBacks(cs) == SelectSeq(cs, LAMBDA c : c.op = "write_back")

\* C13: a group whose SKU no source product carried when the run began ends
\* in SKIP_NO_SOURCE (in an error when the lookup itself failed), without a
\* mutating call and without a write-back, and main() books it as skipped.
C13_SourceNotFound ==
    /\ (IsSync /\ GroupDone /\ NoSourceFor(products0, loc.sku)) =>
          /\ ~ghist.faulted => result = Returned("SKIP_NO_SOURCE")
          /\ ghist.faulted => pc = "raised"
          /\ Mutating(calls) = <<>>
          /\ WriteBacks(calls) = <<>>
          /\ \A j \in 1..Len(sheet) : sheet[j].sku = loc.sku => IsNone(sheet[j].product_id)
    /\ IsSync =>
          \A i \in 1..Len(outcomes) :
              outcomes[i].outcome = "SKIP_NO_SOURCE" => outcomes[i].mutating = 0

\* the second group of a run found no source after the first created its outlet
C13_Witness ==
    /\ IsSync /\ pc = "returned" /\ result = Returned("SKIP_NO_SOURCE")
    /\ loc.sku = "B" /\ NoSourceFor(products0, "B")
    /\ Len(outcomes) = 1 /\ outcomes[1].outcome = "SUCCESS"

\* the lookup of an existing outlet has just answered
LookedUp ==
    /\ IsSync /\ pc \in {"duplicate", "delete_draft", "returned"}
    /\ Len(calls) = 2 /\ calls[2].op = "find_outlet" /\ calls[2].ok

SkippedActive == pc = "returned" /\ result = Returned("SKIP_ALREADY_ACTIVE")

DraftsAt(P, h, sku) ==
    {id \in DOMAIN P :
        /\ P[id].handle = h /\ P[id].status = "DRAFT"
        /\ \E i \in 1..Len(P[id].variants) : P[id].variants[i].sku = sku}

CallsOf(cs, op) == {k \in 1..Len(cs) : cs[k].op = op}

\* the first group of a run is over, its two lookups answered, and when the
\* run began a Draft outlet of the group was under the outlet's handle
DraftCase ==
    /\ IsSync /\ GroupDone /\ gi = 1
    /\ Len(calls) >= 2 /\ calls[2].op = "find_outlet" /\ calls[2].ok
    /\ DraftsAt(products0, loc.outlet_handle, loc.sku) # {}

\* C15: a Draft outlet under the outlet's handle is deleted exactly once and
\* before the duplication; after a successful delete the duplication is
\* issued, after a failed one it is not.
C15_DraftCleanup ==
    DraftCase =>
        LET dels == CallsOf(calls, "delete_product")
            dups == CallsOf(calls, "duplicate")
        IN /\ Cardinality(dels) = 1
           /\ \A d \in dels :
                 /\ calls[d].pid \in DraftsAt(products0, loc.outlet_handle, loc.sku)
                 /\ \A u \in dups : d < u
                 /\ calls[d].ok => dups # {} /\ calls[d].pid \notin DOMAIN products
                 /\ ~calls[d].ok => dups = {}
           /\ Cardinality(dups) <= 1

(***************************************************************************)
(* The write-back of the outlet's id                                       *)
(***************************************************************************)
\* C16: a group that ends in SUCCESS has called the write-back exactly once
\* for every row of the group, in the order of the rows, with the id of the
\* new outlet, after every call of the inventory step; a group that ends
\* otherwise has called it for no row.
C16_WriteBackCoverage ==
    /\ (IsSync /\ pc = "returned" /\ Succeeded) =>
          LET wbs == WriteBacks(calls)
          IN /\ Len(wbs) = Len(loc.rows)
             /\ \A j \in 1..Len(wbs) :
                   wbs[j].vi = loc.rows[j].row_index /\ wbs[j].pid = loc.outlet_gid
             /\ \A k, m \in 1..Len(calls) :
                   (k < m /\ calls[k].op = "write_back") => calls[m].op = "write_back"
    /\ (IsSync /\ GroupDone /\ ~Succeeded) => WriteBacks(calls) = <<>>
    /\ (IsSync /\ pc \notin {"returned", "group", "exit"}) => WriteBacks(calls) = <<>>

\* a group of two rows ended in SUCCESS after the promo and the warehouse
\* calls, with a write-back for each of its rows
C16_Witness ==
    /\ IsSync /\ pc = "returned" /\ Succeeded
    /\ Len(loc.rows) = 2 /\ Len(WriteBacks(calls)) = 2
    /\ \A j \in 1..2 : WriteBacks(calls)[j].ok
    /\ \A j \in 1..Len(sheet) :
          sheet[j].row_index \in {2, 3} <=> sheet[j].product_id = Gid(loc.outlet_gid)
    /\ \E k \in 1..Len(calls) : calls[k].op = "inv_delete"

FailedWriteBack(cs) == \E k \in 1..Len(cs) : cs[k].op = "write_back" /\ ~cs[k].ok

\* C17: a write-back that fails for a row (the update raises, or the sheet has
\* no Product_Id column) leaves the group at SUCCESS with the write-back
\* called for every row of the group, and every later group of the run ends
\* as it would have ended alone.
C17_WriteBackBestEffort ==
    /\ (IsSync /\ GroupDone /\ FailedWriteBack(calls)) =>
          /\ pc = "returned" /\ Succeeded
          /\ Len(WriteBacks(calls)) = Len(loc.rows)
    /\ IsSync =>
          \A i \in 1..Len(outcomes) :
              "write_back" \in outcomes[i].failed =>
                  /\ outcomes[i].outcome = "SUCCESS"
                  /\ \A j \in (i + 1)..Len(outcomes) :
                        ~outcomes[j].faulted =>
                            outcomes[j].outcome = ExpectedOutcome(products0, outcomes[j].sku)

\* the write-back of the first of two rows failed, the second row got its id,
\* the group and the group after it ended in SUCCESS
C17_Witness ==
    /\ IsSync /\ pc = "exit" /\ Len(outcomes) = 2
    /\ outcomes[1].failed = {"write_back"} /\ outcomes[1].faulted
    /\ outcomes[1].outcome = "SUCCESS" /\ outcomes[2].outcome = "SUCCESS"
    /\ Len(sheet) = 3 /\ IsNone(sheet[1].product_id) /\ ~IsNone(sheet[2].product_id)

(***************************************************************************)
(* Failures inside the steps after the outlet is created                   *)
(***************************************************************************)
MediaOps ==
    {"images_get", "image_delete", "image_post", "metafields_get", "metafields_set",
     "collects_get", "collect_delete"}

FailedOps(cs) == {cs[k].op : k \in {x \in 1..Len(cs) : ~cs[x].ok}}

OpsOf(cs) == {cs[k].op : k \in 1..Len(cs)}

\* C18: a failure in the copy of the images, the copy of the metafields or
\* the removal of the collects never aborts the group: a group that is aborted
\* after such a failure is aborted by a later call outside these steps, and a
\* group with no other failure runs the steps after it, down to the prices,
\* the inventory and the write-back, and ends in SUCCESS.
C18_MediaStepsNonFatal ==
    /\ (IsSync /\ FailedOps(calls) \cap MediaOps # {}) =>
          /\ pc \in {"metafields", "collects", "prices", "promo", "warehouse",
                     "writeback", "returned", "raised", "group", "exit"}
          /\ pc = "raised" =>
                /\ ~calls[Len(calls)].ok
                /\ calls[Len(calls)].op \notin MediaOps
          /\ FailedOps(calls) \subseteq MediaOps \cup {"write_back"} =>
                /\ pc # "raised"
                /\ pc = "returned" =>
                      /\ Succeeded
                      /\ {"metafields_get", "collects_get", "prices_update"}
                            \subseteq OpsOf(calls)
                      /\ Len(WriteBacks(calls)) = Len(loc.rows)
    /\ IsSync =>
          \A i \in 1..Len(outcomes) :
              /\ outcomes[i].failed \cap MediaOps # {}
              /\ outcomes[i].failed \subseteq MediaOps \cup {"write_back"}
              => outcomes[i].outcome = "SUCCESS"

\* the read of the source's images failed, the outlet kept the images it was
\* born with, and the group ended in SUCCESS
C18_Witness ==
    /\ IsSync /\ pc = "returned" /\ Succeeded
    /\ FailedOps(calls) = {"images_get"}
    /\ "image_post" \notin OpsOf(calls)
    /\ "inv_delete" \in OpsOf(calls)

\* a call of the price step failed: the update of the prices, or the read of
\* the outlet's variants that comes before it (the first such read of a group)
PriceStepFailed ==
    \E k \in 1..Len(calls) :
        /\ ~calls[k].ok
        /\ \/ calls[k].op = "prices_update"
           \/ /\ calls[k].op = "variants_get"
              /\ \A m \in 1..(k - 1) : calls[m].op # "variants_get"

\* C19: a failure of the price step (errors reported by the bulk update, the
\* bulk call raising, the read of the variants raising) does not abort the
\* group: the inventory and the write-back run and the group ends in SUCCESS.
C19_PriceStepNonFatal ==
    (IsSync /\ PriceStepFailed) =>
        /\ pc # "raised"
        /\ pc = "returned" => (Succeeded /\ Len(WriteBacks(calls)) = Len(loc.rows))

(***************************************************************************)
(* Locations that are not configured or not found                          *)
(***************************************************************************)
Unresolvable(name) == ~Truthy(name) \/ name.val \notin remote_locs

\* C20: with the promo or the warehouse location unset or not found in the
\* shop, no group ends in SUCCESS and no write-back is called.
C20_LocationsGroupFatal ==
    (IsSync /\ (Unresolvable(cfg.promo_name) \/ Unresolvable(cfg.mag_name))) =>
        /\ GroupDone => (~Succeeded /\ WriteBacks(calls) = <<>>)
        /\ \A i \in 1..Len(outcomes) : outcomes[i].outcome # "SUCCESS"

(***************************************************************************)
(* The rate-limited clients: spacing, retries, backoff                     *)
(***************************************************************************)
\* C21: every dispatch of a client, a retry of the same call included, comes
\* at least the configured minimum interval after the recorded time of the
\* client's last call.
C21_MinSpacing ==
    gw_kind \in GwKinds => \A k \in 1..Len(gaps) : gaps[k] >= min_interval

\* a 4xx answer other than the rate-limit status, or an answer to a query that
\* carries an errors list
NonRetryable(r, kind) ==
    \/ r.status >= 400 /\ r.status < 500 /\ ~IsRateLimit(r, kind)
    \/ kind \in {"sync_graphql", "client_graphql"} /\ r.status = 200 /\ r.errors

\* C22: an answer that is not retryable ends the call at once: it is the last
\* dispatch of the call, the call raises, and no sleep follows it.
C22_NonRetryableSurfaces ==
    gw_kind \in GwKinds =>
        \A k \in 1..Len(resps) :
            NonRetryable(resps[k], gw_kind) =>
                /\ k = Len(resps)
                /\ gw_result # NoneV /\ gw_result.tag = "Raised"
                /\ since = 0

Transient(r, kind) == IsRateLimit(r, kind) \/ IsServerError(r) \/ r.status = 0

\* C25: whatever the mix of rate-limit, 5xx and network-error answers, one
\* call dispatches at most max_retries requests.
C25_SharedBudget ==
    (gw_kind \in GwKinds /\ max_retries >= 1
       /\ \A i \in 1..Len(resps) : Transient(resps[i], gw_kind))
      => Len(resps) <= max_retries

\* the delay min(2^(k-1), 8) after attempt k, in ticks, with or without jitter
BackoffAfter(k) ==
    LET d == Min(Pow2(k - 1), SyncBackoffCap) IN Jitter(d) \cup {d * Ticks}

\* C26: in a call whose answers are all server errors, the sleep after the
\* k-th attempt is min(2^(k-1), 8) seconds (jittered or not), so never above
\* the 8-second ceiling.
C26_CappedBackoff ==
    (gw_kind \in GwKinds
       /\ \A i \in 1..Len(resps) :
             IsServerError(resps[i]) /\ resps[i].retry_after = NoneV)
      => \A k \in 1..Len(slept) :
            /\ slept[k] \in BackoffAfter(k)
            /\ slept[k] <= SyncBackoffCap * Ticks

(***************************************************************************)
(* The two-location choreography                                           *)
(***************************************************************************)
\* the calls on inventory levels at location l
AtLocation(c, l) == c.op \in {"inv_connect", "inv_set", "inv_delete"} /\ c.l = l

\* C23: a row's quantity is written at the promo location only after every
\* variant of the outlet has been connected there and then set to 0 there,
\* and no call at the promo location follows a call at the warehouse location.
C23_PromoConnectThenZero ==
    \A k \in 1..Len(calls) :
        /\ (calls[k].op = "inv_set" /\ calls[k].l = PROMO /\ calls[k].qty > 0
              /\ calls[k].pid \in DOMAIN products) =>
              \A i \in 1..Len(products[calls[k].pid].variants) :
                  \E a \in 1..k, b \in 1..k :
                      /\ a < b /\ b < k
                      /\ calls[a].op = "inv_connect" /\ calls[a].l = PROMO
                      /\ calls[a].pid = calls[k].pid /\ calls[a].vi = i
                      /\ calls[b].op = "inv_set" /\ calls[b].l = PROMO /\ calls[b].ok
                      /\ calls[b].qty = 0
                      /\ calls[b].pid = calls[k].pid /\ calls[b].vi = i
        /\ AtLocation(calls[k], MAGAZZINO) =>
              \A m \in (k + 1)..Len(calls) : ~AtLocation(calls[m], PROMO)

\* both blocks have run on an outlet with two variants: a quantity was written
\* at the promo location and a warehouse level was deleted afterwards
C23_Witness ==
    /\ pc = "writeback"
    /\ Len(products[loc.outlet_gid].variants) >= 2
    /\ \E k \in 1..Len(calls), m \in 1..Len(calls) :
          /\ k < m
          /\ calls[k].op = "inv_set" /\ calls[k].l = PROMO /\ calls[k].qty > 0 /\ calls[k].ok
          /\ calls[m].op = "inv_delete" /\ calls[m].l = MAGAZZINO /\ calls[m].ok

\* C24: a variant of the outlet that had no warehouse level when the Magazzino
\* block began (the block had to connect it before it could set it) has no
\* warehouse level when the block has ended.
C24_AbsentWarehouseLevel ==
    pc = "writeback" =>
        \A k \in 1..Len(calls) :
            (calls[k].op = "inv_connect" /\ calls[k].l = MAGAZZINO
               /\ calls[k].pid = loc.outlet_gid) =>
                MAGAZZINO \notin DOMAIN products[loc.outlet_gid].variants[calls[k].vi].levels

(***************************************************************************)
(* Duplication and handle finalization                                     *)
(***************************************************************************)
\* the attempts of update_product_basic in the group at hand
UpdateAttempts == {k \in 1..Len(calls) : calls[k].op = "update_product"}

\* C27: the attempts to set the handle are bounded, and a group that ends
\* because the shop rejected the handle as taken (no call failed for another
\* reason) has tried the base handle and then at least the handle with "-1".
C27_BoundedHandleRetry ==
    /\ Cardinality(UpdateAttempts) <= HandleSuffixLimit
    /\ (pc = "raised" /\ ~ghist.faulted /\ UpdateAttempts # {}
          /\ calls[Len(calls)].op = "update_product")
         => Cardinality(UpdateAttempts) >= 2

\* C28: the first update of a duplicate's handle comes only after the new
\* product has been fetched: some read of that product lies between the
\* duplicate call and the update.
C28_DuplicationPoll ==
    \A k \in UpdateAttempts :
        (\A j \in UpdateAttempts : k <= j) =>
            \E j \in 1..(k - 1) : ~calls[j].mut /\ calls[j].pid = calls[k].pid

\* C29: an images step that finds on the outlet the image sequence of the
\* source issues no image delete and no image post.
C29_MediaShortCircuit ==
    [][(pc = "images" /\ loc.source_gid \in DOMAIN products
          /\ products[loc.outlet_gid].images = products[loc.source_gid].images)
         => \A k \in (Len(calls) + 1)..Len(calls') :
               calls'[k].op \notin {"image_delete", "image_post"}]_vars

\* C30: a product whose handle this group has set (a successful
\* update_product_basic) is Active and has no tags, in every state from that
\* update on.
C30_ActiveImpliesNoTags ==
    \A k \in UpdateAttempts :
        (calls[k].ok /\ pc # "group") =>
            /\ calls[k].pid \in DOMAIN products
            /\ products[calls[k].pid].status = "ACTIVE"
            /\ products[calls[k].pid].tags = {}
            /\ products[calls[k].pid].handle = loc.final_handle

\* the outlet of a source that carries tags has been finalized and the group
\* has come to the write-back
C30_Witness ==
    /\ pc = "writeback"
    /\ \E k \in UpdateAttempts : calls[k].ok /\ calls[k].pid = loc.outlet_gid
    /\ loc.source_gid \in DOMAIN products
    /\ products[loc.source_gid].tags # {}
    /\ products[loc.outlet_gid].status = "ACTIVE"
    /\ products[loc.outlet_gid].tags = {}

(***************************************************************************)
(* Exceptions of a group                                                   *)
(***************************************************************************)
\* a failed call whose exception no step of process_sku_group handles: the
\* duplicate, the update of the handle, or a set at the promo location that
\* is not answered by a connect
FatalFailure(k) ==
    /\ ~calls[k].ok
    /\ \/ calls[k].op \in {"duplicate", "update_product"}
       \/ /\ calls[k].op = "inv_set" /\ calls[k].l = PROMO
          /\ ~(k < Len(calls) /\ calls[k + 1].op = "inv_connect")

\* C31: the call whose exception leaves process_sku_group is the last call of
\* the group: nothing follows it, no write-back is issued, and main() books
\* the group as ERROR.
C31_ErrorShortCircuit ==
    /\ \A k \in 1..Len(calls) :
          FatalFailure(k) => k = Len(calls) /\ pc \in {"raised", "group", "exit"}
    /\ pc = "raised" =>
          /\ calls # <<>> /\ ~calls[Len(calls)].ok
          /\ \A k \in 1..Len(calls) : calls[k].op # "write_back"
          /\ GroupOutcome(result) = "ERROR"
    /\ \A i \in 1..Len(outcomes) :
          outcomes[i].raised => outcomes[i].outcome = "ERROR"

\* the promo block raised after the duplicate was made and finalized, and
\* main() has booked the group
C31_Witness ==
    /\ pc = "group" /\ outcomes # <<>>
    /\ outcomes[Len(outcomes)].raised /\ outcomes[Len(outcomes)].outcome = "ERROR"
    /\ calls # <<>> /\ calls[Len(calls)].op = "inv_set" /\ ~calls[Len(calls)].ok
    /\ \E k \in 1..Len(calls) : calls[k].op = "update_product" /\ calls[k].ok
    /\ stats.errors >= 1

(***************************************************************************)
(* The lookup of the source                                                *)
(***************************************************************************)
\* C32: the product the lookup of a source has returned for the group's SKU
\* has a handle that does not end with "-outlet" and a variant with exactly
\* that SKU, and is not a duplicate the workflow made; the lookup is a read.
C32_SourceResolution ==
    /\ pc = "find_outlet" =>
          /\ ~EndsWithOutletHandle(products[loc.source_gid].handle)
          /\ \E i \in 1..Len(products[loc.source_gid].variants) :
                products[loc.source_gid].variants[i].sku = loc.sku
          /\ products[loc.source_gid].made_for = ""
    /\ \A k \in 1..Len(calls) : calls[k].op = "find_source" => ~calls[k].mut

\* in a second run the lookup has returned the source of A while an outlet
\* made for A by the first run is in the catalog
C32_Witness ==
    /\ pc = "find_outlet" /\ run = 2 /\ loc.sku = "A"
    /\ calls[Len(calls)].op = "find_source" /\ calls[Len(calls)].ok
    /\ products[loc.source_gid].made_for = ""
    /\ \E id \in DOMAIN products :
          products[id].made_for = "A" /\ EndsWithOutletHandle(products[id].handle)

(***************************************************************************)
(* The rows' quantities at the promo location                              *)
(***************************************************************************)
\* the variants with the SKU and exactly the size
ExactMatches(vs, sku, taglia) ==
    {i \in 1..Len(vs) : vs[i].sku = sku /\ vs[i].size = taglia}

\* the successful sets at the promo location that follow the zeroing pass
RowWrites ==
    LET sets == SelectSeq(calls, LAMBDA c : c.op = "inv_set" /\ c.l = PROMO /\ c.ok)
        n == Len(products[loc.outlet_gid].variants)
    IN [k \in 1..(Len(sets) - n) |-> <<sets[n + k].vi, sets[n + k].qty>>]

\* the writes the rows ask for when a row is served only by a variant with its
\* SKU and exactly its size
RECURSIVE StatedWrites(_, _, _)
StatedWrites(vs, sku, rows) ==
    IF rows = <<>> THEN <<>>
    ELSE LET m == ExactMatches(vs, sku, rows[1].taglia)
         IN (IF m = {} THEN <<>> ELSE <<(<<SetMin(m), rows[1].qta>>)>>)
              \o StatedWrites(vs, sku, Tail(rows))

\* the same, a row without a size being served by the first variant of the SKU
RECURSIVE CodeWrites(_, _, _)
CodeWrites(vs, sku, rows) ==
    IF rows = <<>> THEN <<>>
    ELSE LET m == IF rows[1].taglia = ""
                    THEN {i \in 1..Len(vs) : vs[i].sku = sku}
                    ELSE ExactMatches(vs, sku, rows[1].taglia)
         IN (IF m = {} THEN <<>> ELSE <<(<<SetMin(m), rows[1].qta>>)>>)
              \o CodeWrites(vs, sku, Tail(rows))

\* the level a sequence of writes leaves on variant i after the zeroing pass
RECURSIVE LevelAfter(_, _)
LevelAfter(ws, i) ==
    IF ws = <<>> THEN 0
    ELSE IF ws[Len(ws)][1] = i THEN ws[Len(ws)][2]
    ELSE LevelAfter(SubSeq(ws, 1, Len(ws) - 1), i)

PromoDone == pc = "warehouse" /\ ~ghist.faulted /\ Truthy(cfg.promo_name)
               /\ cfg.promo_name.val \in remote_locs

\* C33 as stated: the promo block writes exactly the quantities of the rows
\* that have a variant of their SKU and exactly their size, in the rows'
\* order; a row without such a variant writes nothing and changes no level.
C33_NoMatchingVariant ==
    PromoDone =>
        LET vs == products[loc.outlet_gid].variants
            ws == StatedWrites(vs, loc.sku, loc.rows)
        IN /\ RowWrites = ws
           /\ \A i \in 1..Len(vs) : vs[i].levels[PROMO] = LevelAfter(ws, i)

\* C33, amended: a row that names a size is served only by a variant with its
\* SKU and exactly that size, and writes nothing and changes no level when
\* there is none; a row that names no size is served by the first variant
\* with its SKU.  The rows after it are served, and the group ends in SUCCESS
\* when no call fails.
C33_NoMatchingVariantAmended ==
    /\ PromoDone =>
          LET vs == products[loc.outlet_gid].variants
              ws == CodeWrites(vs, loc.sku, loc.rows)
          IN /\ RowWrites = ws
             /\ \A i \in 1..Len(vs) : vs[i].levels[PROMO] = LevelAfter(ws, i)
    /\ (pc = "returned" /\ ~ghist.faulted
          /\ \E k \in 1..Len(calls) : calls[k].op = "inv_set") => Succeeded

\* the promo block has run for two rows of A: size 44, which no variant has,
\* and size 41; only the second wrote, on the second variant
C33_Witness ==
    /\ PromoDone
    /\ Len(loc.rows) = 2 /\ loc.rows[1].taglia = "44" /\ loc.rows[2].taglia = "41"
    /\ RowWrites = <<(<<2, 2>>)>>
    /\ products[loc.outlet_gid].variants[1].levels[PROMO] = 0
    /\ products[loc.outlet_gid].variants[2].levels[PROMO] = 2

(***************************************************************************)
(* The cache of locations                                                  *)
(***************************************************************************)
\* the calls a step adds to the log of the group
NewCalls == IF Len(calls') > Len(calls) THEN SubSeq(calls', Len(calls) + 1, Len(calls')) ELSE <<>>

CountOf(outcome) ==
    Cardinality({i \in 1..Len(outcomes) : outcomes[i].outcome = outcome})

\* C35: in a run of sync.py every group that main() has finished is booked
\* once, under exactly one of the four counters, and at the end of the run the
\* four counters add up to the number of SKU groups.
C35_OutcomeAccounting ==
    (IsSync /\ gi >= 1) =>
        /\ stats.success = CountOf("SUCCESS")
        /\ stats.skip_active = CountOf("SKIP_ALREADY_ACTIVE")
        /\ stats.skip_source = CountOf("SKIP_NO_SOURCE")
        /\ stats.errors = CountOf("ERROR")
        /\ stats.success + stats.skip_active + stats.skip_source + stats.errors
             = Len(outcomes)
        /\ pc = "group" => Len(outcomes) = gi - 1
        /\ pc = "exit" => Len(outcomes) = Len(groups)

\* a run of three groups has ended: one raised, one was created, and the
\* counters add up to three
C35_Witness ==
    /\ IsSync /\ pc = "exit" /\ Len(groups) = 3
    /\ stats.errors = 1 /\ stats.success >= 1
    /\ stats.success + stats.skip_active + stats.skip_source + stats.errors = 3

(***************************************************************************)
(* What the workflow deletes                                               *)
(***************************************************************************)
\* C36: the product the workflow is about to delete is a Draft duplicate made
\* for the group's SKU, and no delete is ever issued for the group's source.
C36_DeleteSafety ==
    /\ pc = "delete_draft" =>
          /\ products[loc.existing].status = "DRAFT"
          /\ products[loc.existing].made_for = loc.sku
    /\ \A k \in 1..Len(calls) :
          calls[k].op = "delete_product" => calls[k].pid # loc.source_gid

(***************************************************************************)
(* The variants of the Magazzino block                                     *)
(***************************************************************************)
AtWarehouse(c, i) == c.l = MAGAZZINO /\ c.pid = loc.outlet_gid /\ c.vi = i

Resetting == rpc \notin {"idle", "fetch"} /\ Len(variant_backup) >= 2

\* C38: during reset_product_variants on a product with two or more
\* variants the product has at least one variant at every intermediate
\* point, whichever delete and create calls fail.
C38_NeverEmpty == Resetting => Len(shop_variants) >= 1

\* the backed-up variants the skip filter covers
SkippedVariants ==
    {v \in Range(variant_backup) : SkipMatch(skip_filter, v.title)}

ResetCallsOn(id) ==
    {i \in 1..Len(reset_calls) :
        /\ reset_calls[i].id = id
        /\ reset_calls[i].op \in {"variant_delete", "variant_create"}}

\* C39: a variant whose title contains skip_filter, whatever its case and
\* whatever the variant's position, is neither deleted nor recreated by
\* reset_product_variants and is still there unchanged after the reset.
C39_SkipFilter ==
    Resetting =>
        \A v \in SkippedVariants :
            /\ ResetCallsOn(v.id) = {}
            /\ rpc = "done" => v \in Range(shop_variants)

\* the same for the variants from the second on
C39_SkipFilterRest ==
    Resetting =>
        \A i \in 2..Len(variant_backup) :
            SkipMatch(skip_filter, variant_backup[i].title) =>
                /\ ResetCallsOn(variant_backup[i].id) = {}
                /\ variant_backup[i] \in Range(shop_variants)

====
